---- MODULE Spec2Model ----
(***************************************************************************)
(* A model of the serverless handlers of cover-letter-site: the profiles   *)
(* table, the generation log, POST /api/generate, the subscription         *)
(* reconciliation channels (Stripe webhook, Lemon webhook, profile-read    *)
(* sync, checkout success redirect), POST /api/resume-upload,              *)
(* POST /api/ensure-profile and POST /api/stripe/create-checkout-session.  *)
(*                                                                         *)
(* Conventions: SQL NULL / JS null / undefined is the string NULL for text *)
(* columns and 0 for timestamps (the code tests timestamps for truthiness, *)
(* so 0 and "absent" are the same case).  Time is an integer clock `now`.  *)
(***************************************************************************)
EXTENDS Integers, Sequences, FiniteSets, TLC

VARIABLES
    profiles,   \* the profiles table: user id -> row (present = FALSE: no row)
    logs,       \* the generation_logs table, in insertion order
    now,        \* the wall clock (Date.now())
    env,        \* the deployment's environment variables
    reqs,       \* generate and resume-upload requests in flight, by slot
    resp,       \* the last completed HTTP request and what it did
    hist,       \* the last reconciliation signal and the entitlement around it
    uploaded    \* per user, the last completed accepted upload: its text, and
                \* whether it left its fingerprint and a summary in the profile

vars == <<profiles, logs, now, env, reqs, resp, hist, uploaded>>

-----------------------------------------------------------------------------
(* Bounds of the model *)

MaxTextLen == 340  \* generated texts have up to MaxTextLen code units
MaxGen == 5        \* generate requests start only while generations_used < MaxGen
MaxLogs == 4       \* generate requests complete only while fewer log rows exist
MaxGenLogs == 2    \* log rows written in a behaviour of the generate specification
MaxTime == 1       \* the clock runs 0 .. MaxTime
MaxUserLogs == 1   \* log rows written in a behaviour of the user-facing specification

-----------------------------------------------------------------------------
(* Values *)

NULL == "NULL"

Users == {"u1", "u2"}

\* user.email of the auth provider's user record
AuthEmail(u) == IF u = "u1" THEN "a@x.com" ELSE "b@x.com"

\* String.prototype.toLowerCase on the strings of the model
Lower(s) ==
    CASE s = "ACTIVE" -> "active"
      [] s = "Trialing" -> "trialing"
      [] s = "Canceled" -> "canceled"
      [] s = "A@X.COM" -> "a@x.com"
      [] OTHER -> s

FREE_GENERATION_LIMIT == 3
PREVIEW_MIN_CUT == 160
PREVIEW_MIN_BREAK == 120

getFreeLimit == FREE_GENERATION_LIMIT

Max(a, b) == IF a >= b THEN a ELSE b

-----------------------------------------------------------------------------
(* The profiles table *)

\* column defaults of create table public.profiles
DefaultRow ==
    [ present |-> FALSE,
      email |-> NULL,
      is_pro |-> FALSE,
      stripe_customer_id |-> NULL,
      stripe_subscription_id |-> NULL,
      subscription_status |-> "none",
      plan_id |-> NULL,
      generations_used |-> 0,
      current_period_end |-> 0,
      resume_hash |-> NULL,
      resume_summary |-> NULL ]

\* the columns of `f` written over `row`
Merge(row, f) == [k \in DOMAIN row |-> IF k \in DOMAIN f THEN f[k] ELSE row[k]]

\* (mutant) an upsert that replaces the row: columns not given return to defaults
Upsert_Replace(tbl, id, f) ==
    [tbl EXCEPT ![id] = Merge(Merge(DefaultRow, f), [present |-> TRUE])]

\* .upsert(f, { onConflict: "id" }): insert with defaults, or update the columns given
Upsert(tbl, id, f) ==
    [tbl EXCEPT ![id] = Merge(Merge(IF @.present THEN @ ELSE DefaultRow, f),
                              [present |-> TRUE])]

\* (mutant) an update that never reaches the row
Update_Lost(tbl, id, f) == tbl

\* .update(f).eq("id", id): no row, no effect
Update(tbl, id, f) ==
    IF tbl[id].present THEN [tbl EXCEPT ![id] = Merge(@, f)] ELSE tbl

\* the entitlement tuple of a row
Ent(row) ==
    [ is_pro |-> row.is_pro,
      subscription_status |-> row.subscription_status,
      current_period_end |-> row.current_period_end,
      plan_id |-> row.plan_id ]

-----------------------------------------------------------------------------
(* Identity resolution *)

Tokens == {NULL, "bad", "tok_u1", "tok_u2"}

\* (mutant) any token that is present resolves to a user
getAuthenticatedUser_AnyToken(tok) ==
    IF ~env.supabase \/ tok = NULL THEN NULL
    ELSE IF tok = "tok_u2" THEN "u2" ELSE "u1"

\* getAuthenticatedUser: null without SUPABASE_URL, without a token, or when the
\* auth provider rejects the token
getAuthenticatedUser(tok) ==
    IF ~env.supabase THEN NULL
    ELSE CASE tok = "tok_u1" -> "u1"
           [] tok = "tok_u2" -> "u2"
           [] OTHER -> NULL

-----------------------------------------------------------------------------
(* Responses *)

NoResp ==
    [ ep |-> "none", user |-> NULL, status |-> 0, error |-> NULL,
      locked |-> FALSE, text |-> NULL, readUsed |-> 0, readPro |-> FALSE,
      readStatus |-> NULL, sentUsed |-> 0, usedBefore |-> 0, counterWrite |-> FALSE,
      dbReads |-> 0, dbWrites |-> 0, backendCalls |-> 0, directCalls |-> 0,
      logInserts |-> 0, matched |-> FALSE, sigOk |-> FALSE, wellFormed |-> FALSE,
      resolved |-> NULL, cached |-> FALSE, raw |-> FALSE, summary |-> NULL,
      repeat |-> FALSE, prevStored |-> FALSE, paymentCalls |-> 0,
      backendOk |-> FALSE, logsBefore |-> 0, token |-> NULL,
      hadIds |-> FALSE, provider |-> NULL, source |-> NULL, directOk |-> FALSE,
      excerptLen |-> 0, full |-> <<>>, preview |-> <<>>,
      ident |-> [asked |-> FALSE, ref |-> NULL, email |-> NULL, customer |-> NULL,
                 subscription |-> NULL] ]

\* a provider lookup (stripe.subscriptions.retrieve / list) that failed or found nothing
NoLookup ==
    [ ok |-> FALSE, id |-> NULL, customer |-> NULL, status |-> NULL,
      current_period_end |-> 0, price |-> NULL ]

NoUpload == [text |-> NULL, stored |-> FALSE]

NoHist ==
    [ chan |-> "none", ev |-> [type |-> "none"], lookup |-> NoLookup,
      target |-> NULL, applied |-> FALSE, future |-> FALSE,
      repeat |-> FALSE, sameLookup |-> FALSE, sameFuture |-> FALSE, changed |-> FALSE ]

-----------------------------------------------------------------------------
(* POST /api/generate *)

Slots == {1, 2}

IdleReq ==
    [ pc |-> "idle", user |-> NULL, generationsUsed |-> 0, isPro |-> FALSE,
      status |-> NULL, isSubscribed |-> FALSE, lockPreviewOnly |-> FALSE,
      text |-> NULL, hash |-> NULL, repeat |-> FALSE, prevStored |-> FALSE,
      token |-> NULL, finalText |-> <<>> ]

\* (mutant) the comparison without lower-casing and without trialing
IsSubscribed_ActiveOnly(row) ==
    row.is_pro = TRUE /\ row.subscription_status = "active"

\* isSubscribed of the quota computation
IsSubscribed(row) ==
    LET subscriptionStatus == Lower(row.subscription_status)
    IN  row.is_pro = TRUE
        /\ (subscriptionStatus = "active" \/ subscriptionStatus = "trialing")

FreeRemaining(generationsUsed) == Max(0, getFreeLimit - generationsUsed)

\* (mutant) the free tier never locked
LockPreviewOnly_Never(row) == FALSE

\* lockPreviewOnly of the quota computation
LockPreviewOnly(row) ==
    ~IsSubscribed(row) /\ FreeRemaining(row.generations_used) <= 0

\* Authentication, lazy upsert and the profile read (up to the first await after it).
GenerateBegin(s, tok) ==
    /\ reqs[s].pc = "idle"
    /\ LET user == getAuthenticatedUser(tok) IN
       IF user = NULL
       THEN /\ resp' = [NoResp EXCEPT !.ep = "generate", !.status = 401,
                                      !.error = "Not authenticated",
                                      !.token = tok]
            /\ UNCHANGED <<profiles, logs, now, env, uploaded, reqs, hist>>
       ELSE /\ profiles[user].generations_used < MaxGen
            /\ LET tbl == Upsert(profiles, user, [email |-> AuthEmail(user)])
                   profile == tbl[user]
               IN /\ profiles' = tbl
                  /\ reqs' = [reqs EXCEPT ![s] =
                        [IdleReq EXCEPT
                          !.pc = "read", !.user = user, !.token = tok,
                          !.generationsUsed = profile.generations_used,
                          !.isPro = profile.is_pro,
                          !.status = profile.subscription_status,
                          !.isSubscribed = IsSubscribed(profile),
                          !.lockPreviewOnly = LockPreviewOnly(profile)]]
            /\ UNCHANGED <<logs, now, env, uploaded, resp, hist>>

Bodies == {"badjson", "missing", "ok"}
BackendResults == {"ok_text", "ok_empty", "error"}
DirectResults == {"ok_text", "error"}

\* (mutant) the direct provider is called whether or not the key is configured
DirectOutcome_IgnoresKey(direct) ==
    IF direct = "ok_text" THEN [ok |-> TRUE, called |-> TRUE, error |-> NULL]
    ELSE [ok |-> FALSE, called |-> TRUE, error |-> "direct_error"]

\* generateViaDirectProvider: no call without OPENAI_API_KEY
DirectOutcome(direct) ==
    IF ~env.openaiKey THEN [ok |-> FALSE, called |-> FALSE, error |-> "direct_key_missing"]
    ELSE IF direct = "ok_text" THEN [ok |-> TRUE, called |-> TRUE, error |-> NULL]
    ELSE [ok |-> FALSE, called |-> TRUE, error |-> "direct_error"]

\* (mutant) the direct provider is tried whatever the backend returned
TriesDirect_Always(backendOk) == TRUE

\* the else branch of `if (backendResult.ok && backendResult.text)`
TriesDirect(backendOk) == ~backendOk

\* (mutant) the insert leaves generations_at_request to the column default
LogEntry_DefaultCounter(user, success, counter) ==
    [user |-> user, success |-> success, generations_at_request |-> 0]

\* (mutant) every log row is written with success = true
LogEntry_AlwaysSuccess(user, success, counter) ==
    [user |-> user, success |-> TRUE, generations_at_request |-> counter]

\* the row the handler inserts into generation_logs
LogEntry(user, success, counter) ==
    [user |-> user, success |-> success, generations_at_request |-> counter]

\* Steps 4-8 of the handler: body, generation chain, counter write, log, response.
\* dbOk: the counter update is written; logOk: the log insert is written (the
\* handler looks at the result of neither).
GenerateFinish(s, body, backend, direct, dbOk, logOk) ==
    /\ reqs[s].pc = "read"
    /\ LET r == reqs[s]
           base == [NoResp EXCEPT !.ep = "generate", !.user = r.user,
                                  !.token = r.token,
                                  !.readUsed = r.generationsUsed, !.readPro = r.isPro,
                                  !.readStatus = r.status,
                                  !.usedBefore = profiles[r.user].generations_used,
                                  !.logsBefore = Len(logs),
                                  !.dbReads = 1, !.dbWrites = 1]
       IN
       IF body # "ok"
       THEN /\ resp' = [base EXCEPT !.status = 400, !.error = body]
            /\ reqs' = [reqs EXCEPT ![s] = IdleReq]
            /\ UNCHANGED <<profiles, logs, now, env, uploaded, hist>>
       ELSE
         /\ Len(logs) < MaxLogs
         /\ LET backendOk == backend = "ok_text"
                d == DirectOutcome(direct)
                triesDirect == TriesDirect(backendOk)
                fromProviders == backendOk \/ (triesDirect /\ d.ok)
                allowLocalFallback == env.allowLocalFallback
                haveText == fromProviders \/ allowLocalFallback
                nDirect == IF triesDirect /\ d.called THEN 1 ELSE 0
                source == IF backendOk THEN "backend"
                          ELSE IF triesDirect /\ d.ok THEN "direct" ELSE "local"
                newCount == r.generationsUsed + 1
            IN
            IF ~haveText
            THEN /\ logs' = IF logOk
                            THEN Append(logs, LogEntry(r.user, FALSE, r.generationsUsed))
                            ELSE logs
                 /\ resp' = [base EXCEPT !.status = 502, !.error = d.error,
                                         !.backendOk = backendOk,
                                         !.backendCalls = 1, !.directCalls = nDirect,
                                         !.logInserts = 1]
                 /\ reqs' = [reqs EXCEPT ![s] = IdleReq]
                 /\ UNCHANGED <<profiles, now, env, uploaded, hist>>
            ELSE /\ profiles' = IF dbOk
                                THEN Update(profiles, r.user, [generations_used |-> newCount])
                                ELSE profiles
                 /\ logs' = IF logOk
                            THEN Append(logs, LogEntry(r.user, TRUE, newCount))
                            ELSE logs
                 /\ resp' = [base EXCEPT !.status = 200,
                                         !.locked = r.lockPreviewOnly,
                                         !.text = IF r.lockPreviewOnly THEN "" ELSE "full",
                                         !.sentUsed = newCount,
                                         !.counterWrite = dbOk,
                                         !.dbWrites = 2,
                                         !.backendOk = backendOk,
                                         !.directOk = (triesDirect /\ d.ok),
                                         !.source = source,
                                         !.backendCalls = 1, !.directCalls = nDirect,
                                         !.logInserts = 1]
                 /\ reqs' = [reqs EXCEPT ![s] = IdleReq]
                 /\ UNCHANGED <<now, env, uploaded, hist>>

-----------------------------------------------------------------------------
(* The generate specification: profiles in the entitlement states the       *)
(* reconciliation channels produce, callers u1 and u2.                      *)

GenEntitlements ==
    { <<FALSE, "none">>, <<TRUE, "active">>, <<TRUE, "trialing">>,
      <<FALSE, "trialing">>, <<TRUE, "past_due">>, <<FALSE, "canceled">> }

GenEnvs ==
    { [ stripeKey |-> TRUE, stripeWebhookSecret |-> "whsec", lemonSecret |-> "lsec",
        lemonProductId |-> NULL, supabase |-> TRUE, openaiKey |-> k,
        allowLocalFallback |-> f, lemonCheckoutUrl |-> FALSE ]
      : k \in BOOLEAN, f \in BOOLEAN }

\* counter values a profile holds after earlier requests
GenStart == {0, 2, 3}

InitGen ==
    /\ \E e \in GenEntitlements, g \in GenStart :
         profiles = [u \in Users |->
            IF u = "u1"
            THEN [DefaultRow EXCEPT !.present = TRUE, !.email = AuthEmail(u),
                                    !.is_pro = e[1], !.subscription_status = e[2],
                                    !.generations_used = g]
            ELSE DefaultRow]
    /\ logs = <<>>
    /\ now = 0
    /\ env \in GenEnvs
    /\ reqs = [s \in Slots |-> IdleReq]
    /\ resp = NoResp
    /\ hist = NoHist
    /\ uploaded = [u \in Users |-> NoUpload]

\* the callers of the generate specification: no token, a rejected token, user u1
GenTokens == {NULL, "bad", "tok_u1"}

NextGen ==
    \/ \E s \in Slots, tok \in GenTokens : GenerateBegin(s, tok)
    \/ \E s \in Slots, body \in Bodies, backend \in BackendResults,
          direct \in DirectResults, dbOk \in BOOLEAN :
            Len(logs) < MaxGenLogs /\ GenerateFinish(s, body, backend, direct, dbOk, TRUE)

SpecGen == InitGen /\ [][NextGen]_vars

-----------------------------------------------------------------------------
(* The log specification: generate requests of one user whose log inserts   *)
(* and counter updates may fail.                                            *)

InitLog ==
    /\ \E e \in { <<FALSE, "none">>, <<TRUE, "active">> }, g \in {0, FREE_GENERATION_LIMIT} :
         profiles = [u \in Users |->
            IF u = "u1"
            THEN [DefaultRow EXCEPT !.present = TRUE, !.email = AuthEmail(u),
                                    !.is_pro = e[1], !.subscription_status = e[2],
                                    !.generations_used = g]
            ELSE DefaultRow]
    /\ logs = <<>>
    /\ now = 0
    /\ env \in GenEnvs
    /\ reqs = [s \in Slots |-> IdleReq]
    /\ resp = NoResp
    /\ hist = NoHist
    /\ uploaded = [u \in Users |-> NoUpload]

NextLog ==
    \/ GenerateBegin(1, "tok_u1")
    \/ \E body \in {"ok", "missing"}, backend \in {"ok_text", "error"},
          direct \in DirectResults, dbOk \in BOOLEAN, logOk \in BOOLEAN :
            Len(logs) < MaxGenLogs
            /\ GenerateFinish(1, body, backend, direct, dbOk, logOk)

SpecLog == InitLog /\ [][NextLog]_vars

-----------------------------------------------------------------------------
(* The counter specification: overlapping generate requests of one free     *)
(* user, long enough for a request to finish after two others have.         *)

RaceEnvs == { e \in GenEnvs : ~e.openaiKey }

InitRace ==
    /\ profiles = [u \in Users |->
          IF u = "u1"
          THEN [DefaultRow EXCEPT !.present = TRUE, !.email = AuthEmail(u)]
          ELSE DefaultRow]
    /\ logs = <<>>
    /\ now = 0
    /\ env \in RaceEnvs
    /\ reqs = [s \in Slots |-> IdleReq]
    /\ resp = NoResp
    /\ hist = NoHist
    /\ uploaded = [u \in Users |-> NoUpload]

NextRace ==
    \/ \E s \in Slots : GenerateBegin(s, "tok_u1")
    \/ \E s \in Slots, backend \in {"ok_text", "error"}, dbOk \in BOOLEAN :
          GenerateFinish(s, "ok", backend, "error", dbOk, TRUE)

SpecRace == InitRace /\ [][NextRace]_vars

-----------------------------------------------------------------------------
(* The pair specification: two generate requests of one user, one per       *)
(* request slot, in every interleaving of their reads and writes.           *)

\* the requests begun so far: those in flight and those completed (each
\* completed request of this specification left a log row)
Begun == Cardinality({s \in Slots : reqs[s].pc # "idle"}) + Len(logs)

InitPair ==
    /\ \E g \in {0, FREE_GENERATION_LIMIT - 1} :
         profiles = [u \in Users |->
            IF u = "u1"
            THEN [DefaultRow EXCEPT !.present = TRUE, !.email = AuthEmail(u),
                                    !.generations_used = g]
            ELSE DefaultRow]
    /\ logs = <<>>
    /\ now = 0
    /\ env \in RaceEnvs
    /\ reqs = [s \in Slots |-> IdleReq]
    /\ resp = NoResp
    /\ hist = NoHist
    /\ uploaded = [u \in Users |-> NoUpload]

NextPair ==
    \/ \E s \in Slots : Begun < Cardinality(Slots) /\ GenerateBegin(s, "tok_u1")
    \/ \E s \in Slots, backend \in {"ok_text", "error"}, dbOk \in BOOLEAN :
          GenerateFinish(s, "ok", backend, "error", dbOk, TRUE)

SpecPair == InitPair /\ [][NextPair]_vars

-----------------------------------------------------------------------------
(* Queries on the profiles table *)

\* .select("id").eq(col, val): the rows whose column equals val (NULL equals nothing)
RowsEq(tbl, col, val) ==
    {u \in Users : tbl[u].present /\ val # NULL /\ tbl[u][col] = val}

\* .ilike("email", email): case-insensitive comparison
RowsILikeEmail(tbl, email) ==
    {u \in Users : tbl[u].present /\ email # NULL /\ tbl[u].email # NULL
                   /\ Lower(tbl[u].email) = Lower(email)}

\* .maybeSingle(): the row when exactly one matches, otherwise no data
MaybeSingle(rows) == IF Cardinality(rows) = 1 THEN CHOOSE u \in rows : TRUE ELSE NULL

\* a ?? b for text values
OrElse(a, b) == IF a # NULL THEN a ELSE b

-----------------------------------------------------------------------------
(* Webhook signatures.  An HMAC is the pair (key, message): two MACs are   *)
(* equal exactly when both the key and the signed message are equal.       *)

NoHeader == [present |-> FALSE, prefixed |-> FALSE, key |-> NULL, msg |-> [type |-> "none"]]

Header(key, msg) == [present |-> TRUE, prefixed |-> FALSE, key |-> key, msg |-> msg]

\* the header is the MAC of this body under this secret
Signed(body, signature, secret) ==
    signature.present /\ secret # NULL /\ signature.key = secret /\ signature.msg = body

\* stripe.webhooks.constructEvent succeeds
constructEventOk(body, signature, secret) ==
    signature.key = secret /\ signature.msg = body

-----------------------------------------------------------------------------
(* POST /api/stripe/webhook *)

StripeEvent(type, ref, email, customer, subscription, status, cpe, price) ==
    [ type |-> type, ref |-> ref, email |-> email, customer |-> customer,
      subscription |-> subscription, status |-> status,
      current_period_end |-> cpe, price |-> price ]

\* checkout.session.completed: client_reference_id || metadata.user_id, then the
\* profile whose email equals the checkout email
StripeCheckoutUser(tbl, session) ==
    IF session.ref # NULL THEN session.ref
    ELSE IF session.email # NULL THEN MaybeSingle(RowsEq(tbl, "email", session.email))
    ELSE NULL

\* the columns checkout.session.completed upserts
StripeCheckoutFields(session, lookup) ==
    LET subscriptionData ==
            IF session.subscription # NULL /\ lookup.ok
            THEN [current_period_end |-> lookup.current_period_end, plan_id |-> lookup.price]
            ELSE [plan_id |-> NULL]
    IN  subscriptionData @@
        [ email |-> session.email,
          is_pro |-> TRUE,
          stripe_customer_id |-> session.customer,
          stripe_subscription_id |-> session.subscription,
          subscription_status |-> "active" ]

\* the columns invoice.payment_failed updates
StripePaymentFailedFields(invoice) ==
    [ subscription_status |-> "past_due", is_pro |-> FALSE,
      stripe_subscription_id |-> invoice.subscription ]

\* the columns customer.subscription.deleted updates
StripeDeletedFields(subscription) ==
    [ is_pro |-> FALSE, subscription_status |-> "canceled",
      stripe_subscription_id |-> subscription.subscription,
      plan_id |-> subscription.price ]

\* the columns customer.subscription.updated updates
StripeUpdatedFields(subscription) ==
    LET isCanceled == subscription.status = "canceled" \/ subscription.status = "unpaid"
        updateData ==
            [ subscription_status |-> subscription.status,
              stripe_subscription_id |-> subscription.subscription,
              plan_id |-> subscription.price ]
        withPeriod ==
            IF subscription.current_period_end # 0
            THEN [current_period_end |-> subscription.current_period_end] @@ updateData
            ELSE updateData
    IN  IF isCanceled THEN [is_pro |-> FALSE] @@ withPeriod
        ELSE IF subscription.status = "active" THEN [is_pro |-> TRUE] @@ withPeriod
        ELSE withPeriod

\* the columns invoice.payment_succeeded updates
StripePaymentSucceededFields(invoice) ==
    [ subscription_status |-> "active", is_pro |-> TRUE,
      stripe_subscription_id |-> invoice.subscription ]

StripeCustomerEvents ==
    { "invoice.payment_failed", "customer.subscription.deleted",
      "customer.subscription.updated", "invoice.payment_succeeded" }

StripeFieldsFor(ev) ==
    CASE ev.type = "invoice.payment_failed" -> StripePaymentFailedFields(ev)
      [] ev.type = "customer.subscription.deleted" -> StripeDeletedFields(ev)
      [] ev.type = "customer.subscription.updated" -> StripeUpdatedFields(ev)
      [] ev.type = "invoice.payment_succeeded" -> StripePaymentSucceededFields(ev)

\* the identifiers a payment signal carries
Ident(ref, email, customer, subscription) ==
    [ asked |-> TRUE, ref |-> ref, email |-> email, customer |-> customer,
      subscription |-> subscription ]

\* the customer id of an invoice / subscription event (no resolution by the rules)
CustomerIdent(customer) ==
    [ asked |-> FALSE, ref |-> NULL, email |-> NULL, customer |-> customer,
      subscription |-> NULL ]

\* (mutant) an unmatched event or a failed write surfaces as an error
AckStatus_Surface(matched, written) == IF matched /\ written THEN 200 ELSE 500

\* the webhook's answer once the event was dispatched:
\* jsonResponse(200, { received: true, ... }) whatever the lookup and the write did
AckStatus(matched, written) == 200

\* what a reconciliation request leaves in resp and hist
ReconResp(ep, status, error, sigOk, target, reads, writes) ==
    [NoResp EXCEPT !.ep = ep, !.status = status, !.error = error, !.sigOk = sigOk,
                   !.wellFormed = sigOk,
                   !.user = target, !.matched = (target # NULL),
                   !.dbReads = reads, !.dbWrites = writes]

\* hist remembers a signal only when it was written to a profile
ReconHist(chan, ev, lookup, target, applied, future, tbl) ==
    IF ~applied THEN [NoHist EXCEPT !.chan = chan]
    ELSE [ chan |-> chan, ev |-> ev, lookup |-> lookup, target |-> target,
           applied |-> TRUE, future |-> future,
           repeat |-> (hist.chan = chan /\ hist.ev = ev /\ hist.target = target),
           sameLookup |-> hist.lookup = lookup,
           sameFuture |-> hist.future = future,
           changed |-> Ent(tbl[target]) # Ent(profiles[target]) ]

\* a request the handler answers before it looks at any event
Rejected(ep, status, error, sigOk) ==
    /\ resp' = ReconResp(ep, status, error, sigOk, NULL, 0, 0)
    /\ hist' = NoHist
    /\ UNCHANGED <<profiles, logs, now, env, uploaded, reqs>>

\* getSupabaseAdmin() throws without SUPABASE_URL / SUPABASE_SERVICE_ROLE_KEY and no
\* handler catches it: the platform answers 500
Thrown(ep, sigOk) == Rejected(ep, 500, "unhandled", sigOk)

\* the handler after constructEvent accepted the event (signed: whether the header
\* really was the MAC of the body)
StripeDispatch(ev, lookup, dbOk, signed) ==
    IF ~env.supabase THEN Thrown("stripe-webhook", signed)
    ELSE IF ev.type = "checkout.session.completed"
    THEN LET userId == StripeCheckoutUser(profiles, ev)
             reads == IF ev.ref = NULL /\ ev.email # NULL THEN 1 ELSE 0
             tbl == IF userId # NULL /\ userId \in Users /\ dbOk
                    THEN Upsert(profiles, userId, StripeCheckoutFields(ev, lookup))
                    ELSE profiles
             target == IF userId \in Users THEN userId ELSE NULL
         IN  /\ profiles' = tbl
             /\ resp' = [ReconResp("stripe-webhook", AckStatus(userId # NULL, dbOk), NULL,
                                   signed, target, reads, IF userId # NULL THEN 1 ELSE 0)
                            EXCEPT !.matched = (userId # NULL),
                                   !.resolved = userId,
                                   !.ident = Ident(ev.ref, ev.email, ev.customer,
                                                   ev.subscription)]
             /\ hist' = ReconHist("stripe", ev, lookup, target,
                                  target # NULL /\ dbOk, FALSE, tbl)
             /\ UNCHANGED <<logs, now, env, uploaded, reqs>>
    ELSE IF ev.type \in StripeCustomerEvents
    THEN LET rows == RowsEq(profiles, "stripe_customer_id", ev.customer) IN
         IF rows = {}
         THEN /\ resp' = [ReconResp("stripe-webhook", AckStatus(FALSE, FALSE), NULL, signed,
                                     NULL, 1, 0)
                             EXCEPT !.ident = CustomerIdent(ev.customer)]
              /\ hist' = ReconHist("stripe", ev, NoLookup, NULL, FALSE, FALSE, profiles)
              /\ UNCHANGED <<profiles, logs, now, env, uploaded, reqs>>
         ELSE \E first \in rows :          \* profiles[0]: the order of the rows is the database's
              LET tbl == IF dbOk THEN Update(profiles, first, StripeFieldsFor(ev))
                         ELSE profiles
              IN  /\ profiles' = tbl
                  /\ resp' = [ReconResp("stripe-webhook", AckStatus(TRUE, dbOk), NULL, signed,
                                         first, 1, 1)
                                 EXCEPT !.ident = CustomerIdent(ev.customer)]
                  /\ hist' = ReconHist("stripe", ev, NoLookup, first, dbOk,
                                       ev.current_period_end > now, tbl)
                  /\ UNCHANGED <<logs, now, env, uploaded, reqs>>
    ELSE /\ resp' = ReconResp("stripe-webhook", AckStatus(FALSE, FALSE), NULL, signed,
                               NULL, 0, 0)
         /\ hist' = ReconHist("stripe", ev, NoLookup, NULL, FALSE, FALSE, profiles)
         /\ UNCHANGED <<profiles, logs, now, env, uploaded, reqs>>

StripeWebhook(signature, ev, lookup, dbOk) ==
    LET signed == Signed(ev, signature, env.stripeWebhookSecret) IN
    IF ~env.stripeKey \/ env.stripeWebhookSecret = NULL
    THEN Rejected("stripe-webhook", 500, "Missing STRIPE_SECRET_KEY or STRIPE_WEBHOOK_SECRET",
                  FALSE)
    ELSE IF ~signature.present
    THEN Rejected("stripe-webhook", 400, "Missing stripe-signature header", signed)
    ELSE IF ~constructEventOk(ev, signature, env.stripeWebhookSecret)
    THEN Rejected("stripe-webhook", 400, "Invalid signature", signed)
    ELSE StripeDispatch(ev, lookup, dbOk, signed)

-----------------------------------------------------------------------------
(* POST /api/lemon/webhook *)

\* (mutant) any header that is present passes
verifyLemonSignature_AnyHeader(rawBody, signature, secret) ==
    signature.present /\ secret # NULL

\* verifyLemonSignature: the header without its sha256= prefix must equal the digest
verifyLemonSignature(rawBody, signature, secret) ==
    IF ~signature.present \/ secret = NULL THEN FALSE
    ELSE signature.key = secret /\ signature.msg = rawBody

\* toIsoOrNull(renews_at) || toIsoOrNull(ends_at) || toIsoOrNull(trial_ends_at)
LemonEndsAt(attrs) ==
    IF attrs.renews_at # 0 THEN attrs.renews_at
    ELSE IF attrs.ends_at # 0 THEN attrs.ends_at
    ELSE attrs.trial_ends_at

\* (mutant) the mapping without the grace period of a cancelled subscription
mapSubscriptionState_NoGrace(status, attrs) ==
    LET raw == IF status = NULL THEN "" ELSE Lower(status)
        endsAtIso == LemonEndsAt(attrs)
    IN  IF raw = "active"
        THEN [subscription_status |-> "active", is_pro |-> TRUE,
              current_period_end |-> endsAtIso]
        ELSE IF raw = "on_trial" \/ raw = "trialing"
        THEN [subscription_status |-> "trialing", is_pro |-> TRUE,
              current_period_end |-> endsAtIso]
        ELSE [subscription_status |-> IF raw = "" THEN "none" ELSE raw, is_pro |-> FALSE,
              current_period_end |-> endsAtIso]

\* mapSubscriptionState: Date.now() is the clock of the model
mapSubscriptionState(status, attrs) ==
    LET raw == IF status = NULL THEN "" ELSE Lower(status)
        endsAtIso == LemonEndsAt(attrs)
        endsAtMs == endsAtIso
        hasFutureAccess == endsAtMs # 0 /\ endsAtMs > now
    IN  IF raw = "active"
        THEN [subscription_status |-> "active", is_pro |-> TRUE,
              current_period_end |-> endsAtIso]
        ELSE IF raw = "on_trial" \/ raw = "trialing"
        THEN [subscription_status |-> "trialing", is_pro |-> TRUE,
              current_period_end |-> endsAtIso]
        ELSE IF (raw = "cancelled" \/ raw = "canceled") /\ hasFutureAccess
        THEN [subscription_status |-> "active", is_pro |-> TRUE,
              current_period_end |-> endsAtIso]
        ELSE [subscription_status |-> IF raw = "" THEN "none" ELSE raw, is_pro |-> FALSE,
              current_period_end |-> endsAtIso]

\* resolveUserId: custom_data user id, then a case-insensitive email lookup
resolveUserId(tbl, payload) ==
    IF payload.user_id # NULL THEN payload.user_id
    ELSE IF payload.email # NULL THEN MaybeSingle(RowsILikeEmail(tbl, payload.email))
    ELSE NULL

\* eventName.startsWith("subscription_") || type === "subscriptions"
looksSubscriptionEvent(payload) ==
    payload.event_name \in {"subscription_created", "subscription_updated",
                            "subscription_cancelled"}
    \/ payload.data_type = "subscriptions"

\* (mutant) the time of the delivery written as the period end
LemonUpdatePayload_StampPeriod(payload, mapped) ==
    [ email |-> payload.email,
      is_pro |-> mapped.is_pro,
      subscription_status |-> mapped.subscription_status,
      current_period_end |-> now,
      plan_id |-> IF payload.variant_id # NULL THEN "lemon:v1" ELSE "lemon" ]

\* the row the handler upserts
LemonUpdatePayload(payload, mapped) ==
    [ email |-> payload.email,
      is_pro |-> mapped.is_pro,
      subscription_status |-> mapped.subscription_status,
      current_period_end |-> mapped.current_period_end,
      plan_id |-> IF payload.variant_id # NULL THEN "lemon:v1" ELSE "lemon" ]

\* the handler after the signature check
LemonDispatch(payload, dbOk, signed) ==
    IF payload.json # "ok"
    THEN /\ resp' = [ReconResp("lemon-webhook", 400, "Invalid JSON payload", signed,
                                NULL, 0, 0) EXCEPT !.wellFormed = FALSE]
         /\ hist' = NoHist
         /\ UNCHANGED <<profiles, logs, now, env, uploaded, reqs>>
    ELSE IF ~looksSubscriptionEvent(payload)
            \/ (env.lemonProductId # NULL /\ payload.product_id # NULL
                /\ env.lemonProductId # payload.product_id)
    THEN /\ resp' = ReconResp("lemon-webhook", AckStatus(FALSE, FALSE), "ignored", signed,
                               NULL, 0, 0)
         /\ hist' = ReconHist("lemon", payload, NoLookup, NULL, FALSE, FALSE, profiles)
         /\ UNCHANGED <<profiles, logs, now, env, uploaded, reqs>>
    ELSE IF ~env.supabase THEN Thrown("lemon-webhook", signed)
    ELSE LET userId == resolveUserId(profiles, payload)
             reads == IF payload.user_id = NULL /\ payload.email # NULL THEN 1 ELSE 0
             target == IF userId \in Users THEN userId ELSE NULL
             mapped == mapSubscriptionState(payload.status, payload)
             tbl == IF target # NULL /\ dbOk
                    THEN Upsert(profiles, target, LemonUpdatePayload(payload, mapped))
                    ELSE profiles
         IN  /\ profiles' = tbl
             /\ resp' = [ReconResp("lemon-webhook", AckStatus(userId # NULL, dbOk), NULL,
                                   signed, target, reads, IF userId # NULL THEN 1 ELSE 0)
                            EXCEPT !.matched = (userId # NULL),
                                   !.resolved = userId,
                                   !.ident = Ident(payload.user_id, payload.email, NULL, NULL)]
             /\ hist' = ReconHist("lemon", payload, NoLookup, target,
                                  target # NULL /\ dbOk,
                                  LemonEndsAt(payload) # 0 /\ LemonEndsAt(payload) > now, tbl)
             /\ UNCHANGED <<logs, now, env, uploaded, reqs>>

LemonWebhook(signature, payload, dbOk) ==
    LET signed == Signed(payload, signature, env.lemonSecret) IN
    IF env.lemonSecret = NULL
    THEN Rejected("lemon-webhook", 500, "Missing LEMON_WEBHOOK_SECRET", FALSE)
    ELSE IF ~verifyLemonSignature(payload, signature, env.lemonSecret)
    THEN Rejected("lemon-webhook", 400, "Invalid signature", signed)
    ELSE LemonDispatch(payload, dbOk, signed)

-----------------------------------------------------------------------------
(* GET /api/profile *)

normalizeSubscriptionState(status) ==
    LET s == IF status = NULL THEN "" ELSE Lower(status)
        isPro == s = "active" \/ s = "trialing"
    IN  [status |-> IF s = "" THEN "none" ELSE s, isPro |-> isPro]

\* (mutant) the sync writes the status and leaves is_pro as it was
SyncUpdates_StatusOnly(profile, subscription) ==
    [ subscription_status |-> normalizeSubscriptionState(subscription.status).status ]

\* the columns syncStripeStatusIfNeeded writes once the provider returned a subscription
SyncUpdates(profile, subscription) ==
    LET normalized == normalizeSubscriptionState(subscription.status)
        hasStripeIds == profile.stripe_customer_id # NULL
                        \/ profile.stripe_subscription_id # NULL
        stripeCustomerId == IF hasStripeIds THEN profile.stripe_customer_id
                            ELSE subscription.customer
        updates ==
            [ subscription_status |-> normalized.status,
              is_pro |-> normalized.isPro,
              stripe_customer_id |-> OrElse(stripeCustomerId, profile.stripe_customer_id),
              stripe_subscription_id |-> OrElse(subscription.id, profile.stripe_subscription_id),
              plan_id |-> OrElse(subscription.price, profile.plan_id) ]
    IN  IF subscription.current_period_end # 0
        THEN [current_period_end |-> subscription.current_period_end] @@ updates
        ELSE updates

\* syncStripeStatusIfNeeded asks the provider at all
SyncAsksProvider(profile) ==
    /\ env.stripeKey
    /\ \/ profile.stripe_customer_id # NULL
       \/ profile.stripe_subscription_id # NULL
       \/ profile.email # NULL

ProfileRead(tok, lookup, dbOk) ==
    LET user == getAuthenticatedUser(tok) IN
    IF user = NULL
    THEN /\ resp' = [NoResp EXCEPT !.ep = "profile", !.status = 401,
                                   !.error = "Not authenticated", !.token = tok]
         /\ hist' = NoHist
         /\ UNCHANGED <<profiles, logs, now, env, uploaded, reqs>>
    ELSE LET tbl1 == Upsert(profiles, user, [email |-> AuthEmail(user)])
             profile == tbl1[user]
             synced == SyncAsksProvider(profile) /\ lookup.ok
             tbl2 == IF synced /\ dbOk
                     THEN Update(tbl1, user, SyncUpdates(profile, lookup))
                     ELSE tbl1
         IN  /\ profiles' = tbl2
             /\ resp' = [ReconResp("profile", 200, NULL, FALSE, user, 1,
                                   IF synced THEN 2 ELSE 1)
                            EXCEPT !.matched = synced, !.token = tok,
                                   !.hadIds = (profile.stripe_customer_id # NULL
                                        \/ profile.stripe_subscription_id # NULL),
                                   !.provider = IF synced THEN lookup.status
                                                ELSE NULL]
             /\ hist' = ReconHist("profile", [type |-> "sync"],
                                  IF synced THEN lookup ELSE NoLookup, user,
                                  synced /\ dbOk,
                                  synced /\ lookup.current_period_end > now, tbl2)
             /\ UNCHANGED <<logs, now, env, uploaded, reqs>>

-----------------------------------------------------------------------------
(* GET /api/stripe/success *)

\* (mutant) a session no lookup matches is attributed to some profile
StripeSuccessUser_OrAnyone(tbl, session) ==
    IF session.ref # NULL THEN session.ref
    ELSE IF MaybeSingle(RowsILikeEmail(tbl, session.email)) # NULL
    THEN MaybeSingle(RowsILikeEmail(tbl, session.email))
    ELSE CHOOSE u \in Users : tbl[u].present

\* the four lookups of the success redirect, first match wins
StripeSuccessUser(tbl, session) ==
    LET byRef == session.ref
        byEmail == IF byRef = NULL /\ session.email # NULL
                   THEN MaybeSingle(RowsILikeEmail(tbl, session.email)) ELSE byRef
        byCustomer == IF byEmail = NULL /\ session.customer # NULL
                      THEN MaybeSingle(RowsEq(tbl, "stripe_customer_id", session.customer))
                      ELSE byEmail
        bySubscription ==
            IF byCustomer = NULL /\ session.subscription # NULL
            THEN MaybeSingle(RowsEq(tbl, "stripe_subscription_id", session.subscription))
            ELSE byCustomer
    IN  bySubscription

\* the entitlement the success redirect upserts
StripeSuccessFields(session, lookup) ==
    LET retrieved == session.subscription # NULL /\ lookup.ok
        status == IF lookup.status = NULL THEN "active" ELSE Lower(lookup.status)
    IN  [ email |-> session.email,
          is_pro |-> IF retrieved THEN status = "active" \/ status = "trialing" ELSE TRUE,
          subscription_status |-> IF retrieved THEN status ELSE "active",
          stripe_customer_id |-> session.customer,
          stripe_subscription_id |-> session.subscription,
          current_period_end |-> IF retrieved THEN lookup.current_period_end ELSE 0,
          plan_id |-> IF retrieved THEN lookup.price ELSE NULL ]

\* session = [type |-> "none"...]: no session_id, or the session lookup threw
StripeSuccess(session, lookup, dbOk) ==
    IF ~env.stripeKey
    THEN Rejected("stripe-success", 302, "missing_stripe_key", FALSE)
    ELSE IF session.type = "no_session_id"
    THEN Rejected("stripe-success", 302, "missing_session_id", FALSE)
    ELSE IF ~env.supabase THEN Thrown("stripe-success", FALSE)
    ELSE IF session.type = "lookup_failed"
    THEN Rejected("stripe-success", 302, "session_lookup_failed", FALSE)
    ELSE LET userId == StripeSuccessUser(profiles, session)
             target == IF userId \in Users THEN userId ELSE NULL
             tbl == IF target # NULL /\ dbOk
                    THEN Upsert(profiles, target, StripeSuccessFields(session, lookup))
                    ELSE profiles
         IN  /\ profiles' = tbl
             /\ resp' = [ReconResp("stripe-success", 302,
                                   IF userId = NULL THEN "unmatched" ELSE "success",
                                   FALSE, target, 0, IF userId # NULL THEN 1 ELSE 0)
                            EXCEPT !.matched = (userId # NULL),
                                   !.resolved = userId,
                                   !.ident = Ident(session.ref, session.email,
                                                   session.customer, session.subscription)]
             /\ hist' = ReconHist("success", session,
                                  IF session.subscription # NULL THEN lookup ELSE NoLookup,
                                  target, target # NULL /\ dbOk,
                                  session.subscription # NULL /\ lookup.ok
                                     /\ lookup.current_period_end > now, tbl)
             /\ UNCHANGED <<logs, now, env, uploaded, reqs>>

\* time passes
Tick ==
    /\ now < MaxTime
    /\ now' = now + 1
    /\ UNCHANGED <<profiles, logs, env, uploaded, reqs, resp, hist>>

-----------------------------------------------------------------------------
(* The reconciliation specification: the four channels and the clock.      *)

FarEnd == MaxTime + 1      \* a period end no clock reading of the model reaches

\* a Lemon payload: meta.event_name, data.type, data.attributes, custom_data
LemonEvent(name, type, status, dates, ident, product, variant) ==
    [ type |-> "lemon", json |-> "ok", event_name |-> name, data_type |-> type,
      status |-> status, renews_at |-> dates[1], ends_at |-> dates[2],
      trial_ends_at |-> dates[3], user_id |-> ident[1], email |-> ident[2],
      product_id |-> product, variant_id |-> variant ]

\* checkout sessions (the webhook's event object and the success redirect's session)
Session(ref, email, customer, subscription) ==
    StripeEvent("checkout.session.completed", ref, email, customer, subscription,
                NULL, 0, NULL)

Sessions ==
    { Session("u1", "a@x.com", "cus1", "sub1"),
      Session(NULL, "A@X.COM", "cus1", "sub1"),
      Session(NULL, "a@x.com", "cus1", NULL),
      Session(NULL, NULL, "cus1", "sub1"),
      Session(NULL, NULL, NULL, "sub1"),
      Session("u1", "b@x.com", "cus1", "sub1"),
      Session("ghost", NULL, "cus1", "sub1"),
      Session(NULL, "z@x.com", "cus9", NULL) }

\* the signals whose profile write is also tried with a failing database
FailingWrites ==
    { Session("u1", "a@x.com", "cus1", "sub1"),
      StripeEvent("customer.subscription.updated", NULL, NULL, "cus1", "sub1",
                  "active", 1, "price1"),
      LemonEvent("subscription_updated", "subscriptions", "active", <<FarEnd, 0, 0>>,
                 <<"u1", NULL>>, "prod1", NULL) }

StripeStatuses == {"active", "trialing", "past_due", "canceled", "unpaid"}

StripeSubscriptionEvents ==
    { StripeEvent("customer.subscription.updated", NULL, NULL, "cus1", "sub1", st, 1, "price1")
        : st \in StripeStatuses }
    \cup { StripeEvent("customer.subscription.updated", NULL, NULL, "cus1", "sub1",
                       "canceled", FarEnd, "price1"),
           StripeEvent("customer.subscription.updated", NULL, NULL, "cus1", "sub1",
                       "active", 0, NULL),
           StripeEvent("customer.subscription.deleted", NULL, NULL, "cus1", "sub1",
                       "canceled", 1, "price1"),
           StripeEvent("invoice.payment_failed", NULL, NULL, "cus1", "sub1", NULL, 0, NULL),
           StripeEvent("invoice.payment_failed", NULL, NULL, "cus9", NULL, NULL, 0, NULL),
           StripeEvent("invoice.payment_succeeded", NULL, NULL, "cus1", "sub1", NULL, 0, NULL),
           StripeEvent("customer.created", NULL, NULL, "cus1", NULL, NULL, 0, NULL) }

\* what the provider's API answers about a subscription
Subscription(status, cpe) ==
    [ ok |-> TRUE, id |-> "sub1", customer |-> "cus1", status |-> status,
      current_period_end |-> cpe, price |-> "price1" ]

CheckoutLookups == {NoLookup, Subscription("active", FarEnd)}

Lookups ==
    { NoLookup, Subscription("active", FarEnd), Subscription("trialing", 1),
      Subscription("past_due", 1), Subscription("canceled", FarEnd) }

Request(signature, ev, lookup, dbOk) ==
    [signature |-> signature, ev |-> ev, lookup |-> lookup, dbOk |-> dbOk]

\* the event an unsigned or wrongly signed request carries
StripeProbe == Session("u1", "a@x.com", "cus1", "sub1")

\* deliveries to the Stripe endpoint: the provider's (signed with the endpoint's
\* secret), and requests with no header, a forger's MAC, or a MAC over another body
StripeDeliveries ==
    { Request(Header("whsec", ev), ev, lookup, TRUE)
        : ev \in Sessions, lookup \in CheckoutLookups }
    \cup { Request(Header("whsec", ev), ev, NoLookup, TRUE)
             : ev \in StripeSubscriptionEvents }
    \cup { Request(Header("whsec", ev), ev, NoLookup, FALSE)
             : ev \in FailingWrites \cap (Sessions \cup StripeSubscriptionEvents) }
    \cup { Request(h, StripeProbe, NoLookup, TRUE)
             : h \in { NoHeader, Header("attacker", StripeProbe),
                       Header("whsec", Session(NULL, NULL, NULL, NULL)) } }

\* subscription events of user u1: <<status, <<renews_at, ends_at, trial_ends_at>> >>
LemonShapes ==
    { <<"cancelled", <<0, 0, 0>> >>, <<"cancelled", <<0, 1, 0>> >>,
      <<"cancelled", <<FarEnd, 0, 0>> >>, <<"canceled", <<0, 1, 0>> >>,
      <<"active", <<FarEnd, 0, 0>> >>, <<"ACTIVE", <<0, 1, 0>> >>,
      <<"on_trial", <<0, 0, FarEnd>> >>, <<"past_due", <<0, 1, 0>> >>,
      <<NULL, <<0, 0, 0>> >> }

LemonEvents ==
    { LemonEvent("subscription_updated", "subscriptions", sh[1], sh[2],
                 <<"u1", NULL>>, "prod1", NULL) : sh \in LemonShapes }
    \cup { LemonEvent("subscription_cancelled", "subscriptions", "cancelled", <<0, 1, 0>>,
                      id, NULL, "v1")
             : id \in {<<NULL, "A@X.COM">>, <<NULL, NULL>>, <<"ghost", NULL>>} }
    \cup { LemonEvent("subscription_updated", "subscriptions", "active", <<FarEnd, 0, 0>>,
                      <<"u1", NULL>>, "prod2", NULL),
           LemonEvent("order_created", "orders", "paid", <<0, 0, 0>>,
                      <<"u1", NULL>>, "prod1", NULL),
           LemonEvent(NULL, "subscriptions", "active", <<FarEnd, 0, 0>>,
                      <<"u1", NULL>>, "prod1", NULL),
           [ LemonEvent("subscription_updated", "subscriptions", "active", <<0, 0, 0>>,
                        <<"u1", NULL>>, "prod1", NULL) EXCEPT !.json = "bad" ] }

\* the event an unsigned or wrongly signed request carries
LemonProbe ==
    LemonEvent("subscription_updated", "subscriptions", "active", <<FarEnd, 0, 0>>,
               <<"u1", NULL>>, "prod1", NULL)

\* deliveries to the Lemon endpoint
LemonDeliveries ==
    { Request(Header("lsec", ev), ev, NoLookup, TRUE) : ev \in LemonEvents }
    \cup { Request(Header("lsec", ev), ev, NoLookup, FALSE)
             : ev \in FailingWrites \cap LemonEvents }
    \cup { Request(h, LemonProbe, NoLookup, TRUE)
             : h \in { NoHeader, Header("attacker", LemonProbe),
                       [Header("lsec", LemonProbe) EXCEPT !.prefixed = TRUE],
                       Header("lsec", LemonEvent("order_created", "orders", "paid",
                                                 <<0, 0, 0>>, <<NULL, NULL>>, NULL, NULL)) } }

\* the session create-checkout-session opens for u1, before any payment: it
\* carries the user's id and email, and no customer and no subscription yet
UnpaidSession == Session("u1", "a@x.com", NULL, NULL)

\* requests to the success redirect: no session_id, a session lookup that throws,
\* a session with or without a subscription, a session nobody paid
SuccessRequests ==
    { Request(NoHeader, StripeProbe, lookup, TRUE) : lookup \in Lookups }
    \cup { Request(NoHeader, UnpaidSession, NoLookup, TRUE) }
    \cup { Request(NoHeader, session, lookup, TRUE)
             : session \in {x \in Sessions : x.subscription # NULL},
               lookup \in CheckoutLookups }
    \cup { Request(NoHeader, session, NoLookup, TRUE)
             : session \in {x \in Sessions : x.subscription = NULL} }
    \cup { Request(NoHeader, session, NoLookup, FALSE)
             : session \in FailingWrites \cap Sessions }
    \cup { Request(NoHeader, [Session(NULL, NULL, NULL, NULL) EXCEPT !.type = t],
                   NoLookup, TRUE)
             : t \in {"no_session_id", "lookup_failed"} }

\* requests to the profile endpoint: user u1 with each answer of the provider, once
\* with a failing database, and a caller without a token
ProfileRequests ==
    { [tok |-> "tok_u1", lookup |-> lookup, dbOk |-> TRUE] : lookup \in Lookups }
    \cup { [tok |-> "tok_u1", lookup |-> Subscription("active", FarEnd), dbOk |-> FALSE],
           [tok |-> NULL, lookup |-> NoLookup, dbOk |-> TRUE] }

\* deployments: fully configured; payment secrets without the database's
\* credentials; nothing configured
ReconEnvs ==
    { [ stripeKey |-> TRUE, stripeWebhookSecret |-> "whsec", lemonSecret |-> "lsec",
        lemonProductId |-> "prod1", supabase |-> TRUE, openaiKey |-> FALSE,
        allowLocalFallback |-> FALSE, lemonCheckoutUrl |-> FALSE ],
      [ stripeKey |-> TRUE, stripeWebhookSecret |-> "whsec", lemonSecret |-> "lsec",
        lemonProductId |-> "prod1", supabase |-> FALSE, openaiKey |-> FALSE,
        allowLocalFallback |-> FALSE, lemonCheckoutUrl |-> FALSE ],
      [ stripeKey |-> FALSE, stripeWebhookSecret |-> NULL, lemonSecret |-> NULL,
        lemonProductId |-> NULL, supabase |-> TRUE, openaiKey |-> FALSE,
        allowLocalFallback |-> FALSE, lemonCheckoutUrl |-> FALSE ] }

\* both users have made their first authenticated request
Init ==
    /\ profiles = [u \in Users |->
          [DefaultRow EXCEPT !.present = TRUE, !.email = AuthEmail(u)]]
    /\ logs = <<>>
    /\ now = 0
    /\ env \in ReconEnvs
    /\ reqs = [s \in Slots |-> IdleReq]
    /\ resp = NoResp
    /\ hist = NoHist
    /\ uploaded = [u \in Users |-> NoUpload]

Next ==
    \/ \E r \in StripeDeliveries : StripeWebhook(r.signature, r.ev, r.lookup, r.dbOk)
    \/ \E r \in LemonDeliveries : LemonWebhook(r.signature, r.ev, r.dbOk)
    \/ \E r \in ProfileRequests : ProfileRead(r.tok, r.lookup, r.dbOk)
    \/ \E r \in SuccessRequests : StripeSuccess(r.ev, r.lookup, r.dbOk)
    \/ Tick

Spec == Init /\ [][Next]_vars

-----------------------------------------------------------------------------
(* POST /api/resume-upload *)

SCANNED_THRESHOLD == 200
MAX_SUMMARY_CHARS == 900

\* the string of n copies of the code unit c
Rep(c, n) == [i \in 1..n |-> c]

\* the texts pdf-parse extracts in the model (after trim), as UTF-16 code units:
\* one below the threshold, two of threshold length that end in "Aa" and "BB",
\* one a character longer than the excerpt a response may carry
ResumeTexts == {"short", "t1", "t2", "t3"}

Content(t) ==
    CASE t = "short" -> Rep(120, SCANNED_THRESHOLD - 1)
      [] t = "t1" -> Rep(120, SCANNED_THRESHOLD - 2) \o <<65, 97>>
      [] t = "t2" -> Rep(120, SCANNED_THRESHOLD - 2) \o <<66, 66>>
      [] t = "t3" -> Rep(120, MAX_SUMMARY_CHARS + 1)

\* a 32-bit integer is kept as two 16-bit halves
Half == 2^16

\* hash = ((hash << 5) - hash) + char; hash = hash & hash  (31 * hash + char, mod 2^32)
HashStep(h, c) ==
    LET lo == h.lo * 31 + c
        hi == h.hi * 31 + (lo \div Half)
    IN  [hi |-> hi % Half, lo |-> lo % Half]

\* the loop over text[i .. j] started with hash h: the rounds i, i+1, .., j in
\* order (the range is halved, and the first half computed before the second is
\* entered, so that the evaluation stays shallow)
RECURSIVE HashLoop(_, _, _, _)
HashLoop(text, i, j, h) ==
    IF i > j THEN h
    ELSE IF i = j THEN HashStep(h, text[i])
    ELSE LET mid == (i + j) \div 2
             first == HashLoop(text, i, mid, h)
         IN  IF first.lo >= 0 THEN HashLoop(text, mid + 1, j, first) ELSE first

\* Math.abs of the signed 32-bit value
Abs32(h) ==
    IF h.hi < Half \div 2 THEN h
    ELSE [hi |-> (Half - h.hi - (IF h.lo = 0 THEN 0 ELSE 1)) % Half,
          lo |-> (Half - h.lo) % Half]

\* "h" + Math.abs(hash).toString(36) + "_" + text.length  (the magnitude is written
\* here in base 2^16 instead of base 36)
computeHash(text) ==
    LET a == Abs32(HashLoop(text, 1, Len(text), [hi |-> 0, lo |-> 0]))
    IN  "h" \o ToString(a.hi) \o "." \o ToString(a.lo) \o "_" \o ToString(Len(text))

\* the fingerprints of the model's texts
Fingerprint == [t \in ResumeTexts |-> computeHash(Content(t))]

\* (mutant) the whole text is returned
Excerpt_Whole(text) == text

\* extractedText.substring(0, MAX_SUMMARY_CHARS)
Excerpt(text) ==
    IF Len(text) <= MAX_SUMMARY_CHARS THEN text ELSE SubSeq(text, 1, MAX_SUMMARY_CHARS)

\* the lengths of the excerpts of the model's texts
ExcerptLen == [t \in ResumeTexts |-> Len(Excerpt(Content(t)))]

\* the backend's summary of a text, and the excerpt of a text (whose length the
\* response carries in excerptLen)
AiSummary(t) == "summary of " \o t
RawSummary(t) == "text of " \o t

\* (mutant) the comparison off by one: a text one character short is accepted
TooShort_OffByOne(text) == Len(text) + 1 < SCANNED_THRESHOLD

\* extractedText.length < SCANNED_THRESHOLD
TooShort(text) == Len(text) < SCANNED_THRESHOLD

\* (mutant) the stored summary is never reused
CacheHit_Never(row, resumeHash) == FALSE

\* (mutant) the cache answers whenever a summary is stored
CacheHit_AnySummary(row, resumeHash) ==
    row.present /\ row.resume_summary # NULL

\* profile && profile.resume_hash === resumeHash && profile.resume_summary
CacheHit(row, resumeHash) ==
    row.present /\ row.resume_hash = resumeHash /\ row.resume_summary # NULL

UploadResp(user, tok, status, error) ==
    [NoResp EXCEPT !.ep = "resume-upload", !.user = user, !.token = tok,
                   !.status = status, !.error = error]

\* Steps 1-5: authentication, the file checks, text extraction, the fingerprint and
\* the cache lookup (up to the first await after the profile select).
ResumeBegin(s, tok, file) ==
    /\ reqs[s].pc = "idle"
    /\ LET user == getAuthenticatedUser(tok)
           done(r) == /\ resp' = r
                      /\ UNCHANGED <<profiles, logs, now, env, reqs, hist, uploaded>>
       IN
       IF user = NULL THEN done(UploadResp(NULL, tok, 401, "Not authenticated"))
       ELSE IF file.kind = "notpdf"
       THEN done(UploadResp(user, tok, 400, "Only PDF files are supported."))
       ELSE IF file.kind = "unreadable"
       THEN done(UploadResp(user, tok, 422, "Failed to read PDF"))
       ELSE IF TooShort(Content(file.text))
       THEN done(UploadResp(user, tok, 422, "scanned_pdf"))
       ELSE LET resumeHash == Fingerprint[file.text]
                repeat == /\ uploaded[user].text = file.text
                          /\ \A o \in Slots :
                                ~(reqs[o].pc = "upload" /\ reqs[o].user = user)
                prevStored == repeat /\ uploaded[user].stored
            IN  IF CacheHit(profiles[user], resumeHash)
                THEN /\ resp' = [UploadResp(user, tok, 200, NULL) EXCEPT
                                   !.cached = TRUE, !.text = file.text,
                                   !.summary = profiles[user].resume_summary,
                                   !.repeat = repeat, !.prevStored = prevStored,
                                   !.dbReads = 1]
                     /\ uploaded' = [uploaded EXCEPT ![user] =
                                       [text |-> file.text, stored |-> TRUE]]
                     /\ UNCHANGED <<profiles, logs, now, env, reqs, hist>>
                ELSE /\ reqs' = [reqs EXCEPT ![s] =
                           [IdleReq EXCEPT !.pc = "upload", !.user = user, !.token = tok,
                                           !.text = file.text, !.hash = resumeHash,
                                           !.repeat = repeat,
                                           !.prevStored = prevStored]]
                     /\ UNCHANGED <<profiles, logs, now, env, resp, hist, uploaded>>

SummaryResults == {"ok_text", "ok_empty", "error", "throw"}

\* Steps 6-7: the summary call, the raw-text fallback, the cache write, the response.
ResumeFinish(s, backend, dbOk) ==
    /\ reqs[s].pc = "upload"
    /\ LET r == reqs[s]
           base == [UploadResp(r.user, r.token, 200, NULL) EXCEPT
                      !.text = r.text, !.repeat = r.repeat,
                      !.prevStored = r.prevStored, !.dbReads = 1,
                      !.backendCalls = 1]
       IN
       /\ reqs' = [reqs EXCEPT ![s] = IdleReq]
       /\ IF backend \in {"error", "throw"}
          THEN /\ resp' = [base EXCEPT !.raw = TRUE, !.summary = RawSummary(r.text),
                                         !.excerptLen = ExcerptLen[r.text]]
               /\ UNCHANGED <<profiles, logs, now, env, hist>>
          ELSE LET summary == IF backend = "ok_text" THEN AiSummary(r.text)
                              ELSE RawSummary(r.text)
               IN  /\ profiles' = IF dbOk
                                  THEN Update(profiles, r.user,
                                              [resume_hash |-> r.hash,
                                               resume_summary |-> summary])
                                  ELSE profiles
                   /\ resp' = [base EXCEPT !.summary = summary, !.dbWrites = 1,
                                             !.backendOk = (backend = "ok_text"),
                                             !.excerptLen =
                                                IF backend = "ok_text" THEN 0
                                                ELSE ExcerptLen[r.text]]
                   /\ UNCHANGED <<logs, now, env, hist>>
       /\ uploaded' = [uploaded EXCEPT ![r.user] =
                         [text |-> r.text,
                          stored |-> /\ profiles'[r.user].present
                                     /\ profiles'[r.user].resume_hash = r.hash
                                     /\ profiles'[r.user].resume_summary # NULL]]

-----------------------------------------------------------------------------
(* POST /api/ensure-profile *)

\* (mutant) a plain upsert, which rewrites the columns given
InsertIgnore_Overwrite(tbl, id, f) == Upsert(tbl, id, f)

\* .upsert(f, { onConflict: "id", ignoreDuplicates: true }): an existing row is kept
InsertIgnore(tbl, id, f) ==
    IF tbl[id].present THEN tbl ELSE Upsert(tbl, id, f)

EnsureProfile(tok, dbOk) ==
    LET user == getAuthenticatedUser(tok)
        base == [NoResp EXCEPT !.ep = "ensure-profile", !.user = user, !.token = tok]
    IN
    /\ IF user = NULL
       THEN /\ resp' = [base EXCEPT !.status = 401, !.error = "Not authenticated"]
            /\ UNCHANGED profiles
       ELSE IF ~dbOk
       THEN /\ resp' = [base EXCEPT !.status = 500, !.error = "upsert failed",
                                    !.dbWrites = 1]
            /\ UNCHANGED profiles
       ELSE /\ profiles' = InsertIgnore(profiles, user, [email |-> AuthEmail(user)])
            /\ resp' = [base EXCEPT !.status = 200, !.dbWrites = 1, !.dbReads = 1,
                                    !.usedBefore = profiles[user].generations_used]
    /\ UNCHANGED <<logs, now, env, reqs, hist, uploaded>>

-----------------------------------------------------------------------------
(* POST /api/stripe/create-checkout-session *)

\* The source file holds two versions of the handler; which of them the build
\* deploys is not decided by the repository, so a request is served by either.
\* SITE_URL / URL are taken as set (the platform sets URL).
CheckoutBuilds == {"stripe-only", "lemon-first"}

CreateCheckoutSession(build, tok, stripeOk, dbOk) ==
    LET user == getAuthenticatedUser(tok)
        base == [NoResp EXCEPT !.ep = "create-checkout-session", !.user = user,
                               !.token = tok]
        tbl == IF dbOk THEN Upsert(profiles, user, [email |-> AuthEmail(user)])
               ELSE profiles
    IN
    /\ IF user = NULL
       THEN /\ resp' = [base EXCEPT !.status = 401, !.error = "Not authenticated"]
            /\ UNCHANGED profiles
       ELSE IF build = "lemon-first" /\ env.lemonCheckoutUrl
       THEN /\ resp' = [base EXCEPT !.status = 200, !.text = "lemon"]
            /\ UNCHANGED profiles
       ELSE IF build = "lemon-first" /\ ~env.stripeKey
       THEN /\ resp' = [base EXCEPT !.status = 500, !.error = "Missing checkout env"]
            /\ UNCHANGED profiles
       ELSE IF ~env.stripeKey
       THEN /\ profiles' = tbl
            /\ resp' = [base EXCEPT !.status = 500, !.error = "Missing checkout env",
                                    !.dbWrites = 1]
       ELSE /\ profiles' = tbl
            /\ resp' = [base EXCEPT !.status = IF stripeOk THEN 200 ELSE 500,
                                    !.error = IF stripeOk THEN NULL ELSE "stripe_error",
                                    !.text = IF stripeOk THEN "stripe" ELSE NULL,
                                    !.dbWrites = 1, !.dbReads = 1, !.paymentCalls = 1]
    /\ UNCHANGED <<logs, now, env, reqs, hist, uploaded>>

-----------------------------------------------------------------------------
(* The user-facing specification: every endpoint a signed-in browser calls, *)
(* with the provider channels delivering into the same table.              *)

UserTokens == {NULL, "bad", "tok_u1"}

Pdf(t) == [kind |-> "pdf", text |-> t]

Files ==
    { [kind |-> "notpdf", text |-> NULL], [kind |-> "unreadable", text |-> NULL] }
    \cup { Pdf(t) : t \in ResumeTexts }

\* deployments of the upload specification (Stripe checkout alone) and of the
\* user-facing one (a Lemon checkout link as well, which the second version of
\* the checkout handler prefers)
UserEnvs ==
    { [ stripeKey |-> TRUE, stripeWebhookSecret |-> "whsec", lemonSecret |-> "lsec",
        lemonProductId |-> NULL, supabase |-> TRUE, openaiKey |-> FALSE,
        allowLocalFallback |-> FALSE, lemonCheckoutUrl |-> k ]
      : k \in BOOLEAN }

\* u1 has not signed in before, or has a row; u2 has used one generation
InitUser ==
    /\ \E p \in BOOLEAN :
         profiles = [u \in Users |->
            IF u = "u1"
            THEN [DefaultRow EXCEPT !.present = p,
                                    !.email = IF p THEN AuthEmail(u) ELSE NULL]
            ELSE [DefaultRow EXCEPT !.present = TRUE, !.email = AuthEmail(u),
                                    !.generations_used = 1]]
    /\ logs = <<>>
    /\ now = 0
    /\ env \in { e \in UserEnvs : e.lemonCheckoutUrl }
    /\ reqs = [s \in Slots |-> IdleReq]
    /\ resp = NoResp
    /\ hist = NoHist
    /\ uploaded = [u \in Users |-> NoUpload]

\* what the payment provider delivers while the user is at the site: the success
\* redirect and the webhook of u1's checkout
UserSessions == { Session(NULL, "A@X.COM", "cus1", "sub1") }

UserDeliveries ==
    { Request(Header("whsec", ev), ev, Subscription("active", FarEnd), TRUE)
        : ev \in UserSessions }

\* a subscription update of u1 from Lemon, signed by the provider or by a forger
UserLemonDeliveries ==
    { Request(h, LemonProbe, NoLookup, TRUE)
        : h \in { Header("lsec", LemonProbe), Header("attacker", LemonProbe) } }

\* one generate request at a time on slot 1, one upload at a time on slot 2
NextUser ==
    \/ \E tok \in UserTokens : GenerateBegin(1, tok)
    \/ \E body \in {"ok", "missing"}, backend \in {"ok_text", "error"} :
          Len(logs) < MaxUserLogs /\ GenerateFinish(1, body, backend, "error", TRUE, TRUE)
    \/ \E tok \in UserTokens, file \in {Pdf("short"), Pdf("t1")} :
          ResumeBegin(2, tok, file)
    \/ ResumeFinish(2, "ok_text", TRUE)
    \/ \E tok \in UserTokens, dbOk \in BOOLEAN : EnsureProfile(tok, dbOk)
    \/ \E build \in CheckoutBuilds, tok \in UserTokens, stripeOk \in BOOLEAN :
          CreateCheckoutSession(build, tok, stripeOk, TRUE)
    \/ \E tok \in UserTokens : ProfileRead(tok, NoLookup, TRUE)
    \/ \E r \in UserDeliveries : StripeSuccess(r.ev, r.lookup, r.dbOk)
    \/ \E r \in UserDeliveries : StripeWebhook(r.signature, r.ev, r.lookup, r.dbOk)
    \/ \E r \in UserLemonDeliveries : LemonWebhook(r.signature, r.ev, r.dbOk)

SpecUser == InitUser /\ [][NextUser]_vars

-----------------------------------------------------------------------------
(* The resume specification: overlapping uploads of one user, with the     *)
(* profile row created by POST /api/ensure-profile.                        *)

UploadEnvs == { e \in UserEnvs : ~e.lemonCheckoutUrl }

InitUpload ==
    /\ \E p \in BOOLEAN :
         profiles = [u \in Users |->
            IF u = "u1"
            THEN [DefaultRow EXCEPT !.present = p,
                                    !.email = IF p THEN AuthEmail(u) ELSE NULL]
            ELSE [DefaultRow EXCEPT !.present = TRUE, !.email = AuthEmail(u)]]
    /\ logs = <<>>
    /\ now = 0
    /\ env \in UploadEnvs
    /\ reqs = [s \in Slots |-> IdleReq]
    /\ resp = NoResp
    /\ hist = NoHist
    /\ uploaded = [u \in Users |-> NoUpload]

NextUpload ==
    \/ \E s \in Slots, tok \in UserTokens, file \in Files : ResumeBegin(s, tok, file)
    \/ \E s \in Slots, backend \in SummaryResults, dbOk \in BOOLEAN :
          ResumeFinish(s, backend, dbOk)
    \/ \E tok \in UserTokens : EnsureProfile(tok, TRUE)

SpecUpload == InitUpload /\ [][NextUpload]_vars

-----------------------------------------------------------------------------
(* Claims about POST /api/generate (checked under SpecGen) *)

\* the last completed request is an authenticated POST /api/generate
GenerateDone == resp.ep = "generate" /\ resp.user # NULL

\* the caller of the last request, as the claims define "subscribed"
RespSubscribed ==
    resp.readPro /\ Lower(resp.readStatus) \in {"active", "trialing"}

RespDenied == resp.status = 403 /\ resp.error = "limit_reached"

AtLimitFree == GenerateDone /\ resp.readUsed = 3 /\ ~resp.readPro

-----------------------------------------------------------------------------
(* Claims about subscription reconciliation (checked under Spec) *)

\* the profile the last applied signal was written to
Stored == profiles[hist.target]

\* the provider status the last applied signal carried
HistStatus ==
    IF hist.chan \in {"stripe", "lemon"} THEN hist.ev.status ELSE hist.lookup.status

\* the period end the last applied signal carried
HistPeriodEnd ==
    CASE hist.chan = "lemon" -> LemonEndsAt(hist.ev)
      [] hist.chan = "stripe" -> hist.ev.current_period_end
      [] OTHER -> hist.lookup.current_period_end

\* the last request wrote a signal whose status is canceled / cancelled
CanceledSignal ==
    /\ hist.applied
    /\ HistStatus # NULL
    /\ Lower(HistStatus) \in {"canceled", "cancelled"}

\* the last request wrote a subscription event with another status
NonCanceledSubscriptionEvent ==
    /\ hist.applied
    /\ \/ hist.chan = "lemon"
       \/ hist.chan = "stripe" /\ hist.ev.type = "customer.subscription.updated"
    /\ HistStatus # NULL
    /\ Lower(HistStatus) \notin {"canceled", "cancelled"}

\* C3 (as stated): in every reachable state of a profile, is_pro is true if and
\* only if the stored subscription_status is active or trialing.
C3_ProIffActiveOrTrialing ==
    \A u \in Users :
        profiles[u].present =>
            (profiles[u].is_pro <=> profiles[u].subscription_status \in {"active", "trialing"})

Webhooks == {"stripe-webhook", "lemon-webhook"}

\* the endpoint of the last request has its secrets configured
SecretConfigured ==
    IF resp.ep = "stripe-webhook"
    THEN env.stripeKey /\ env.stripeWebhookSecret # NULL
    ELSE env.lemonSecret # NULL

\* C4: a webhook request (Stripe or Lemon) whose signature is missing or is not
\* the MAC of its body under the configured secret is answered with 400, and
\* the handler neither reads nor writes the profiles table.
C4_BadSignatureRejected ==
    (resp.ep \in Webhooks /\ ~resp.sigOk) =>
        /\ resp.dbReads = 0 /\ resp.dbWrites = 0
        /\ hist = NoHist
        /\ SecretConfigured => resp.status = 400

C4_Witness ==
    /\ resp.ep = "lemon-webhook" /\ ~resp.sigOk /\ resp.status = 400
    /\ profiles["u1"].subscription_status = "past_due"

\* the last request repeated the signal applied just before it, on a webhook
WebhookRepeat == hist.repeat /\ hist.chan \in {"stripe", "lemon"}

SameCircumstances ==
    CASE hist.chan = "lemon" -> hist.sameFuture
      [] hist.ev.type = "checkout.session.completed" -> hist.sameLookup
      [] OTHER -> TRUE

ExpectedPair(s) ==
    CASE s = "active" -> <<"active", TRUE>>
      [] s \in {"trialing", "on_trial"} -> <<"trialing", TRUE>>
      [] OTHER -> <<s, FALSE>>

\* C6 (as stated): after a subscription event with a non-canceled status s is
\* reconciled, the stored (subscription_status, is_pro) is active -> (active,
\* true); trialing / on_trial -> (trialing, true); past_due, unpaid, any other
\* value -> (that value, false), whatever is_pro was before; with a future
\* period end, current_period_end is the event's.
C6_NonCanceledMapping ==
    NonCanceledSubscriptionEvent =>
        /\ <<Stored.subscription_status, Stored.is_pro>> = ExpectedPair(Lower(HistStatus))
        /\ hist.future => Stored.current_period_end = HistPeriodEnd

\* C7 (as stated): on every channel, a status of canceled / cancelled with a
\* period end still in the future yields subscription_status = active and
\* is_pro = true.
C7_GraceOnEveryChannel ==
    (CanceledSignal /\ hist.future) =>
        Stored.subscription_status = "active" /\ Stored.is_pro

\* C7 (amended): only the Lemon webhook grants the grace period; the Stripe
\* webhook, the profile-read sync and the success redirect store canceled
\* with is_pro = false although the period end is in the future.
C7_GraceOnLemonOnly ==
    (CanceledSignal /\ hist.future) =>
        IF hist.chan = "lemon"
        THEN Stored.subscription_status = "active" /\ Stored.is_pro
        ELSE Stored.subscription_status = "canceled" /\ ~Stored.is_pro

C7_Witness ==
    /\ CanceledSignal /\ hist.future /\ hist.chan = "lemon"
    /\ Stored.is_pro /\ Stored.current_period_end = FarEnd

\* C8 (as stated): a status of canceled / cancelled with no period end in the
\* future leaves is_pro = false and subscription_status = "canceled".
C8_CanceledStoredCanonical ==
    (CanceledSignal /\ ~hist.future) =>
        ~Stored.is_pro /\ Stored.subscription_status = "canceled"

\* the user the four rules name, in their order, for the identifiers of a signal
ResolveInOrder(tbl, id) ==
    IF id.ref # NULL THEN id.ref
    ELSE IF MaybeSingle(RowsILikeEmail(tbl, id.email)) # NULL
    THEN MaybeSingle(RowsILikeEmail(tbl, id.email))
    ELSE IF MaybeSingle(RowsEq(tbl, "stripe_customer_id", id.customer)) # NULL
    THEN MaybeSingle(RowsEq(tbl, "stripe_customer_id", id.customer))
    ELSE MaybeSingle(RowsEq(tbl, "stripe_subscription_id", id.subscription))

\* C9 (as stated): a checkout.session.completed webhook, a Lemon subscription
\* webhook or a success redirect is attributed to the user the first matching
\* rule names: reference id, case-insensitive email, stripe_customer_id,
\* stripe_subscription_id.
C9_ResolutionOrder ==
    [][(now' = now /\ resp'.ident.asked) =>
          resp'.resolved = ResolveInOrder(profiles, resp'.ident)]_vars

\* the last request was a validly signed, well-formed webhook event
ValidWebhookEvent == resp.ep \in Webhooks /\ resp.sigOk /\ resp.wellFormed

Unmatchable(tbl, id) ==
    /\ id.ref \notin Users
    /\ RowsILikeEmail(tbl, id.email) = {}
    /\ RowsEq(tbl, "stripe_customer_id", id.customer) = {}
    /\ RowsEq(tbl, "stripe_subscription_id", id.subscription) = {}

\* the request of this step is a verified provider event or a checkout session
ProviderSignal ==
    \/ resp'.ep \in Webhooks /\ resp'.sigOk /\ resp'.wellFormed
    \/ resp'.ep = "stripe-success" /\ resp'.ident.asked

\* C11: when a verified provider event or a checkout session matches no local
\* user, the request creates and modifies no row of the profiles table.
C11_UnmatchedLeavesProfiles ==
    [][(now' = now /\ ProviderSignal /\ Unmatchable(profiles, resp'.ident)) =>
          profiles' = profiles]_vars

C11_Witness ==
    /\ resp.ep = "stripe-success" /\ resp.error = "unmatched"
    /\ resp.ident.email = "z@x.com" /\ resp.dbWrites = 0
    /\ profiles["u1"].is_pro

\* C12: the stored generations_used of a user never takes a value lower than
\* one it held earlier, whatever the interleaving of generate requests.
C12_CounterNeverDecreases ==
    [][\A u \in Users :
          profiles'[u].generations_used >= profiles[u].generations_used]_vars

-----------------------------------------------------------------------------
(* Claims about the user-facing endpoints (checked under SpecUser)          *)

\* this step completes a generate request of user u with generated text and 200
GenerateSucceeds(u) ==
    /\ \E s \in Slots : reqs[s].pc = "read" /\ reqs[s].user = u /\ reqs'[s].pc = "idle"
    /\ resp'.ep = "generate" /\ resp'.user = u
    /\ resp'.status = 200 /\ resp'.text # NULL

\* C13: a user's generations_used is changed only by a step that completes one
\* of that user's generate requests with generated text and status 200; every
\* other step (a generate request answered 400/401/502, a webhook, a profile
\* read, a checkout, a success redirect, a resume upload, ensure-profile)
\* leaves every user's counter as it was.
C13_CounterChangedOnlyByGenerate ==
    [][\A u \in Users :
          profiles'[u].generations_used # profiles[u].generations_used
             => GenerateSucceeds(u)]_vars

C13_Witness ==
    /\ resp.ep = "stripe-success" /\ resp.matched /\ resp.user = "u1"
    /\ profiles["u1"].is_pro /\ profiles["u1"].generations_used = 1
    /\ profiles["u1"].resume_summary # NULL

\* the endpoints that require a bearer token
UserEndpoints ==
    {"generate", "profile", "ensure-profile", "resume-upload", "create-checkout-session"}

\* tokens the auth provider does not resolve: none, and one it rejects
NoIdentity == {NULL, "bad"}

\* this step is a request to a bearer-token endpoint that presented such a token
\* (a request is answered in the step that resolves its token unless the token
\* resolved, so the step of such a request leaves no request in flight)
UnauthenticatedRequest ==
    /\ reqs' = reqs
    /\ resp'.ep \in UserEndpoints /\ resp'.token \in NoIdentity

\* such a request is answered 401 and does nothing else
Answered401WithoutEffect ==
    UnauthenticatedRequest =>
        /\ resp'.status = 401 /\ resp'.user = NULL
        /\ profiles' = profiles /\ logs' = logs /\ uploaded' = uploaded
        /\ resp'.dbReads = 0 /\ resp'.dbWrites = 0 /\ resp'.logInserts = 0
        /\ resp'.backendCalls = 0 /\ resp'.directCalls = 0
        /\ resp'.paymentCalls = 0

\* no request with such a token is ever left in flight
NoUnauthenticatedInFlight ==
    \A s \in Slots : reqs'[s].pc # "idle" => reqs'[s].token \notin NoIdentity

\* this step belongs to a request whose bearer token resolved to a user
AuthenticatedStep ==
    \/ reqs' = reqs /\ resp'.ep \in UserEndpoints /\ resp'.user # NULL
    \/ \E s \in Slots :
          reqs'[s] # reqs[s] /\ (reqs[s].user # NULL \/ reqs'[s].user # NULL)

\* this step is a webhook delivery whose header is the MAC of its body
SignedStep == reqs' = reqs /\ resp'.ep \in Webhooks /\ resp'.sigOk

\* this step is the success redirect of a checkout session the provider resolved
RedirectStep == reqs' = reqs /\ resp'.ep = "stripe-success" /\ resp'.ident.asked

\* C18 (as stated): a request to a bearer-token endpoint without a valid token
\* is answered 401 and reads and writes nothing and calls nobody; and the
\* profiles table is modified only by steps of authenticated requests and of
\* webhook deliveries with a verified signature.
C18_WritesNeedIdentityOrSignature ==
    [][/\ Answered401WithoutEffect
       /\ NoUnauthenticatedInFlight
       /\ profiles' # profiles => (AuthenticatedStep \/ SignedStep)]_vars

\* C18 (amended): the same, with one more writer: GET /api/stripe/success,
\* which takes no token and no signature and writes the profile that the
\* checkout session named by session_id resolves to.
C18_WritesNeedIdentitySignatureOrSession ==
    [][/\ Answered401WithoutEffect
       /\ NoUnauthenticatedInFlight
       /\ profiles' # profiles =>
             (AuthenticatedStep \/ SignedStep \/ RedirectStep)]_vars

C18_Witness ==
    /\ resp.ep = "create-checkout-session" /\ resp.token = "bad"
    /\ resp.status = 401 /\ resp.user = NULL /\ resp.paymentCalls = 0
    /\ ~profiles["u1"].present

-----------------------------------------------------------------------------
(* Claims about POST /api/resume-upload (checked under SpecUpload)          *)

\* the last completed request is an accepted upload (a summary was returned)
UploadAccepted ==
    resp.ep = "resume-upload" /\ resp.status = 200 /\ resp.summary # NULL

C15_ShortTextRejected ==
    [][\A s \in Slots, tok \in UserTokens, t \in ResumeTexts :
          ( /\ ResumeBegin(s, tok, Pdf(t))
            /\ getAuthenticatedUser(tok) # NULL
            /\ Len(Content(t)) < SCANNED_THRESHOLD )
          => /\ resp'.ep = "resume-upload" /\ resp'.status = 422
             /\ resp'.error = "scanned_pdf"
             /\ resp'.summary = NULL /\ ~resp'.cached
             /\ resp'.backendCalls = 0
             /\ resp'.dbReads = 0 /\ resp'.dbWrites = 0
             /\ profiles' = profiles /\ reqs' = reqs]_vars

C15_Witness ==
    /\ resp.ep = "resume-upload" /\ resp.user = "u1"
    /\ resp.status = 422 /\ resp.error = "scanned_pdf"
    /\ profiles["u1"].resume_hash = Fingerprint["t1"]
    /\ profiles["u1"].resume_summary = AiSummary("t1")

\* the last request was answered from the cache with the stored summary of a
\* row whose fingerprint is the fingerprint of the uploaded text
CachedOnlyOnEqualFingerprint ==
    (resp.ep = "resume-upload" /\ resp.cached) =>
        /\ profiles[resp.user].resume_hash = Fingerprint[resp.text]
        /\ profiles[resp.user].resume_summary = resp.summary

\* C16 (as stated): a non-empty stored resume_summary is accompanied by a
\* resume_hash that is the fingerprint of the user's most recently uploaded
\* accepted text, the summary was derived from the text with that fingerprint,
\* and a cached summary is returned only on an equal fingerprint.
C16_CacheIsOfLatestUpload ==
    /\ \A u \in Users :
          profiles[u].resume_summary # NULL =>
             /\ uploaded[u].text # NULL
             /\ profiles[u].resume_hash = Fingerprint[uploaded[u].text]
             /\ \E t \in ResumeTexts :
                   /\ profiles[u].resume_hash = Fingerprint[t]
                   /\ profiles[u].resume_summary \in {AiSummary(t), RawSummary(t)}
    /\ CachedOnlyOnEqualFingerprint

\* C16 (amended): a non-empty stored resume_summary is accompanied by a
\* resume_hash, and the pair was written by one upload: the summary was derived
\* from a text whose fingerprint is the stored one.  When the user's last
\* completed upload wrote the cache (or was served from it), the stored
\* fingerprint is that upload's; an upload answered with the raw fallback, or
\* whose write failed, leaves the earlier pair.  A cached summary is returned
\* only on an equal fingerprint.
C16_CacheIsOfLatestStoredUpload ==
    /\ \A u \in Users :
          /\ profiles[u].resume_summary # NULL =>
                \E t \in ResumeTexts :
                   /\ profiles[u].resume_hash = Fingerprint[t]
                   /\ profiles[u].resume_summary \in {AiSummary(t), RawSummary(t)}
          /\ uploaded[u].stored =>
                profiles[u].resume_hash = Fingerprint[uploaded[u].text]
    /\ CachedOnlyOnEqualFingerprint

C16_Witness ==
    /\ resp.ep = "resume-upload" /\ resp.cached /\ resp.text = "t2"
    /\ resp.summary = AiSummary("t1")
    /\ profiles["u1"].resume_hash = Fingerprint["t2"]

-----------------------------------------------------------------------------
(* The locked payload of POST /api/generate: buildLockedPreview applied to  *)
(* generated texts of every length up to MaxTextLen.                        *)

\* the generated texts of the model, as UTF-16 code units (already trimmed, as
\* every source of the chain returns them): n letters, and optionally the two
\* code units of a sentence break ". " or of a paragraph break at 0-based
\* position pos in place of letters
BreakKinds == {"none", "sentence", "paragraph"}
BreakPositions == {60, 121, 140, 158, 159}

GeneratedText(n, kind, pos) ==
    [i \in 1..n |->
        IF kind = "none" \/ i \notin {pos + 1, pos + 2} THEN 97
        ELSE IF kind = "paragraph" THEN 10
        ELSE IF i = pos + 1 THEN 46 ELSE 32]

\* String.prototype.lastIndexOf for a two-unit needle: 0-based, -1 when absent
LastIndexOf(str, a, b) ==
    LET hits == {i \in 0..(Len(str) - 2) : str[i + 1] = a /\ str[i + 2] = b}
    IN  IF hits = {} THEN -1 ELSE CHOOSE i \in hits : \A j \in hits : j <= i

\* white space as trim() sees it, for the code units of the model
IsSpace(c) == c \in {32, 10}

\* String.prototype.trim on a string that starts with a letter
TrimEnd(str) ==
    LET keep == {i \in 1..Len(str) : ~IsSpace(str[i])}
    IN  IF keep = {} THEN <<>>
        ELSE SubSeq(str, 1, CHOOSE i \in keep : \A j \in keep : j <= i)

\* str.slice(0, end) for end >= 0
Slice(str, end) == SubSeq(str, 1, IF end < Len(str) THEN end ELSE Len(str))

\* buildLockedPreview(text, 0.5): safeRatio = min(0.6, max(0.4, 0.5)) = 0.5, so
\* Math.floor(src.length * safeRatio) is src.length divided by two
buildLockedPreview(src) ==
    IF src = <<>> THEN <<>>
    ELSE LET half == Len(src) \div 2
             cut == IF half > PREVIEW_MIN_CUT THEN half ELSE PREVIEW_MIN_CUT
             preview == Slice(src, cut)
             dot == LastIndexOf(preview, 46, 32)
             para == LastIndexOf(preview, 10, 10)
             sentenceBreak == IF dot > para THEN dot ELSE para
         IN  TrimEnd(IF sentenceBreak > PREVIEW_MIN_BREAK
                     THEN Slice(preview, sentenceBreak + 1) ELSE preview)

\* step 8 of the handler for a request with lockPreviewOnly whose chain has
\* produced finalText: the payload with an empty text and the preview
LockedPayload(s) ==
    /\ reqs[s].pc = "generated" /\ reqs[s].lockPreviewOnly
    /\ resp' = [NoResp EXCEPT !.ep = "generate", !.user = reqs[s].user,
                              !.token = reqs[s].token,
                              !.status = 200, !.locked = TRUE,
                              !.text = "", !.source = "backend",
                              !.readUsed = reqs[s].generationsUsed,
                              !.sentUsed = reqs[s].generationsUsed + 1,
                              !.full = reqs[s].finalText,
                              !.preview = buildLockedPreview(reqs[s].finalText)]
    /\ reqs' = [reqs EXCEPT ![s] = IdleReq]
    /\ UNCHANGED <<profiles, logs, now, env, hist, uploaded>>

\* a request of an unsubscribed user at the free limit, after its generation
\* chain returned a text (trimmed by the provider call, so it ends in a letter)
InitPreview ==
    /\ profiles = [u \in Users |->
          IF u = "u1"
          THEN [DefaultRow EXCEPT !.present = TRUE, !.email = AuthEmail(u),
                                  !.generations_used = FREE_GENERATION_LIMIT]
          ELSE DefaultRow]
    /\ logs = <<>>
    /\ now = 0
    /\ env \in { e \in RaceEnvs : ~e.allowLocalFallback }
    /\ \E n \in 1..MaxTextLen, kind \in BreakKinds, pos \in BreakPositions :
          /\ pos + 2 < n \/ (kind = "none" /\ pos = 60)
          /\ reqs = [s \in Slots |->
                IF s = 1
                THEN [IdleReq EXCEPT !.pc = "generated", !.user = "u1",
                                     !.token = "tok_u1",
                                     !.generationsUsed = FREE_GENERATION_LIMIT,
                                     !.status = "none", !.lockPreviewOnly = TRUE,
                                     !.finalText = GeneratedText(n, kind, pos)]
                ELSE IdleReq]
    /\ resp = NoResp
    /\ hist = NoHist
    /\ uploaded = [u \in Users |-> NoUpload]

NextPreview == \E s \in Slots : LockedPayload(s)

SpecPreview == InitPreview /\ [][NextPreview]_vars

-----------------------------------------------------------------------------
(* Claims about profile creation (checked under SpecUser) *)

\* the last completed request came with a token that resolved to user u and
\* was answered 200
ServedAuthenticated(u) ==
    resp.ep \in UserEndpoints /\ resp.user = u /\ resp.status = 200

\* C19: once an authenticated request of a user to generate, profile,
\* ensure-profile, resume-upload or create-checkout-session has completed, the
\* profiles table holds a row keyed by that user's identity. (Rows are never
\* deleted, so it is enough to look at the request that completed last; the
\* table is keyed by id, so a second row for one identity cannot be written.)
C19_RowExistsAfterAuthenticatedRequest ==
    \A u \in Users : ServedAuthenticated(u) => profiles[u].present

\* this step is a call of POST /api/ensure-profile by user u (the handler is
\* the only one that answers in one step with this endpoint's name)
EnsureProfileCall(u) ==
    reqs' = reqs /\ resp'.ep = "ensure-profile" /\ resp'.user = u

\* C20: POST /api/ensure-profile on a user whose profile row exists leaves the
\* whole table, and with it every stored field of that row, as it was; on a
\* user without a row a call answered 200 creates the default row with the
\* identity's email and touches no other row. Every call after the first finds
\* the row, so n calls leave the profile that one call leaves.
C20_EnsureProfileIdempotent ==
    [][\A u \in Users :
          EnsureProfileCall(u) =>
             IF profiles[u].present \/ resp'.status # 200
             THEN profiles' = profiles
             ELSE profiles' = [profiles EXCEPT ![u] =
                      [DefaultRow EXCEPT !.present = TRUE, !.email = AuthEmail(u)]]]_vars

\* ensure-profile answered a user whose row carries an entitlement, a payment
\* linkage, a used generation, a cached resume and the checkout's email
C20_Witness ==
    /\ resp.ep = "ensure-profile" /\ resp.status = 200 /\ resp.user = "u1"
    /\ profiles["u1"].is_pro /\ profiles["u1"].stripe_customer_id = "cus1"
    /\ profiles["u1"].generations_used = 1
    /\ profiles["u1"].resume_summary # NULL
    /\ profiles["u1"].email # AuthEmail("u1")

-----------------------------------------------------------------------------
(* Claims about the profile-read sync (checked under Spec) *)

\* the last completed request was a profile read of a row that held a customer
\* or subscription id, and the provider answered it with a subscription
ReadGotSubscription ==
    /\ resp.ep = "profile" /\ resp.status = 200
    /\ resp.hadIds /\ resp.provider # NULL

\* the stored pair is the one the claim derives from the provider's status
StoredIsNormalized(u, status) ==
    /\ profiles[u].subscription_status = Lower(status)
    /\ profiles[u].is_pro = (Lower(status) \in {"active", "trialing"})

-----------------------------------------------------------------------------
(* Claims about the generation chain and the log (checked under SpecGen) *)

\* the last completed request was a generate request that reached the chain
ReachedGeneration ==
    resp.ep = "generate" /\ resp.status \in {200, 502}

\* C22: a generate request that reaches the generation step calls the primary
\* backend exactly once; it calls the direct provider at most once and only
\* when the backend failed or returned no text; the text is the backend's
\* whenever the backend produced one, the direct provider's only after the
\* backend failed, and the local template only after both failed with the
\* local-fallback flag on; so there are at most two outbound calls and none to
\* the direct provider after a backend success. A request answered before the
\* generation step makes no generation call.
C22_ChainOrder ==
    /\ ReachedGeneration =>
          /\ resp.backendCalls = 1
          /\ resp.directCalls \in {0, 1}
          /\ resp.backendCalls + resp.directCalls <= 2
          /\ resp.backendOk => (resp.directCalls = 0 /\ resp.source = "backend")
          /\ resp.source = "direct" =>
                (~resp.backendOk /\ resp.directCalls = 1 /\ resp.directOk)
          /\ resp.source = "local" =>
                (~resp.backendOk /\ ~resp.directOk /\ env.allowLocalFallback)
          /\ resp.status = 200 <=> resp.source # NULL
    /\ (resp.ep = "generate" /\ resp.status \in {400, 401}) =>
          (resp.backendCalls = 0 /\ resp.directCalls = 0)

\* both providers were called and failed, and the local template answered
C22_Witness ==
    /\ ReachedGeneration /\ resp.source = "local"
    /\ resp.backendCalls = 1 /\ resp.directCalls = 1

\* the last completed request added no row to the log
NoLogRowAdded == Len(logs) = resp.logsBefore

\* C23 (checked under SpecLog): a generate request that reaches the generation
\* step attempts exactly one log insert; the row, when written, carries
\* success = true exactly when the response is 200; and the status and the
\* counter in the body are decided by the generation outcome and the value
\* read, the same whether the insert was written or failed. A request answered
\* 400 attempts no insert.
C23_OneLogInsertPerAttempt ==
    /\ ReachedGeneration =>
          /\ resp.logInserts = 1
          /\ Len(logs) \in {resp.logsBefore, resp.logsBefore + 1}
          /\ ~NoLogRowAdded =>
                /\ logs[Len(logs)].user = resp.user
                /\ logs[Len(logs)].success = (resp.status = 200)
          /\ (resp.status = 200) =
                (resp.backendOk \/ resp.directOk \/ env.allowLocalFallback)
          /\ resp.status = 200 =>
                (resp.source # NULL /\ resp.sentUsed = resp.readUsed + 1)
    /\ (resp.ep = "generate" /\ resp.status = 400) =>
          (resp.logInserts = 0 /\ NoLogRowAdded)

\* a generation succeeded, its log insert failed, and the answer is still 200
C23_Witness ==
    /\ ReachedGeneration /\ resp.status = 200 /\ NoLogRowAdded
    /\ resp.logInserts = 1 /\ resp.source = "backend"

\* the row the last completed request added to the log
LastLogRow == logs[Len(logs)]

\* C24 (as stated; checked under SpecGen): every log row, of a successful and
\* of a failed attempt alike, records in generations_at_request the counter
\* value the request read.
C24_LogRecordsCounterRead ==
    (ReachedGeneration /\ ~NoLogRowAdded) =>
        LastLogRow.generations_at_request = resp.readUsed

\* C24 (amended): the row of a failed attempt records the counter value the
\* request read; the row of a successful attempt records that value plus one,
\* the value the request writes back and reports as generations_used.
C24_LogRecordsCounterReadOrWritten ==
    (ReachedGeneration /\ ~NoLogRowAdded) =>
        /\ LastLogRow.success = (resp.status = 200)
        /\ LastLogRow.generations_at_request =
              IF resp.status = 200 THEN resp.readUsed + 1 ELSE resp.readUsed
        /\ resp.status = 200 => LastLogRow.generations_at_request = resp.sentUsed

\* a successful request that read the counter at the free limit logged limit + 1
C24_Witness ==
    /\ ReachedGeneration /\ ~NoLogRowAdded /\ resp.status = 200
    /\ resp.readUsed = FREE_GENERATION_LIMIT
    /\ LastLogRow.generations_at_request = FREE_GENERATION_LIMIT + 1

-----------------------------------------------------------------------------
(* Claims about the summary call of POST /api/resume-upload (checked under  *)
(* SpecUpload)                                                              *)

\* this step completes an upload request after its summary call
SummaryStep == reqs' # reqs /\ resp'.ep = "resume-upload" /\ resp'.backendCalls = 1

\* the resume cache columns of every profile
ResumeCache(tbl) ==
    [u \in Users |-> <<tbl[u].resume_hash, tbl[u].resume_summary>>]

\* a failed summary call (transport error or non-success status) is answered
\* 200 with raw: true and an excerpt of at most MAX_SUMMARY_CHARS characters
\* that is the text itself when the text is no longer, and writes nothing
FailedSummaryDegrades ==
    (SummaryStep /\ resp'.raw) =>
        /\ resp'.status = 200 /\ resp'.summary = RawSummary(resp'.text)
        /\ resp'.excerptLen <= MAX_SUMMARY_CHARS
        /\ resp'.excerptLen <= Len(Content(resp'.text))
        /\ resp'.excerptLen < MAX_SUMMARY_CHARS
              => resp'.excerptLen = Len(Content(resp'.text))
        /\ resp'.dbWrites = 0
        /\ profiles' = profiles

\* C25 (as stated): a failed summary call degrades as above, and a step that
\* changes a profile's resume_hash or resume_summary is the completion of an
\* upload whose summary the gateway produced.
C25_PersistedOnlyWithGatewaySummary ==
    [][/\ FailedSummaryDegrades
       /\ ResumeCache(profiles') # ResumeCache(profiles)
             => (SummaryStep /\ resp'.backendOk
                 /\ resp'.summary = AiSummary(resp'.text))]_vars

\* C25 (amended): a failed summary call degrades as above, and a step that
\* changes a profile's resume_hash or resume_summary is the completion of an
\* upload whose summary call succeeded; what it stores is the gateway's
\* summary, or the excerpt of the text when the gateway's text was empty.
C25_PersistedOnlyAfterGatewaySuccess ==
    [][/\ FailedSummaryDegrades
       /\ ResumeCache(profiles') # ResumeCache(profiles)
             => /\ SummaryStep /\ ~resp'.raw /\ resp'.dbWrites = 1
                /\ profiles'[resp'.user].resume_hash = Fingerprint[resp'.text]
                /\ profiles'[resp'.user].resume_summary = resp'.summary
                /\ resp'.summary = IF resp'.backendOk THEN AiSummary(resp'.text)
                                   ELSE RawSummary(resp'.text)]_vars

\* the summary call of an upload longer than the excerpt failed, after an
\* earlier upload had been stored: the answer is the excerpt and the cache is
\* still the earlier upload's
C25_Witness ==
    /\ resp.ep = "resume-upload" /\ resp.raw /\ resp.text = "t3"
    /\ resp.excerptLen = MAX_SUMMARY_CHARS
    /\ profiles["u1"].resume_hash = Fingerprint["t1"]
    /\ profiles["u1"].resume_summary = AiSummary("t1")

-----------------------------------------------------------------------------
(* Claims about two overlapping generate requests (checked under SpecPair) *)

\* both requests have completed, each with generated text and status 200
BothSucceeded ==
    /\ \A s \in Slots : reqs[s].pc = "idle"
    /\ Len(logs) = Cardinality(Slots)
    /\ \A i \in 1..Len(logs) : logs[i].user = "u1" /\ logs[i].success

\* the counter before the two requests: the request that completed first read
\* it before any write, and logged it plus one
CounterAtStart == logs[1].generations_at_request - 1

-----------------------------------------------------------------------------
(* Claims about the entitlement the channels leave (checked under Spec) *)

\* the provider reported this subscription as active or trialing
ReportedEntitled(lookup) ==
    lookup.ok /\ lookup.status # NULL /\ Lower(lookup.status) \in {"active", "trialing"}

\* C27: when the success redirect has written a profile and the profile is
\* is_pro afterwards, the provider reported the session's subscription as
\* active or trialing; a session without a subscription, or one whose
\* subscription lookup failed, does not leave the profile is_pro.
C27_ProOnlyWhenProviderEntitles ==
    (hist.chan = "success" /\ hist.applied /\ profiles[hist.target].is_pro)
        => ReportedEntitled(hist.lookup)

\* the last signal written to a profile was the deletion of a subscription
DeletionApplied ==
    /\ hist.chan = "stripe" /\ hist.applied
    /\ hist.ev.type = "customer.subscription.deleted"
    /\ ~profiles[hist.target].is_pro
    /\ profiles[hist.target].subscription_status = "canceled"

\* this step writes, to the same profile, an event about the deleted
\* subscription that can only predate its deletion (a deleted subscription
\* does not become active again): a paid invoice of it, or an update of it
\* with status active
StaleEventApplied ==
    /\ hist'.chan = "stripe" /\ hist'.applied /\ hist'.target = hist.target
    /\ hist'.ev.subscription = hist.ev.subscription
    /\ \/ hist'.ev.type = "invoice.payment_succeeded"
       \/ hist'.ev.type = "customer.subscription.updated" /\ hist'.ev.status = "active"

\* C28: once the deletion of a subscription has been applied to a profile, an
\* event of that subscription delivered afterwards that predates the deletion
\* does not make the profile is_pro again.
C28_DeletionIsFinal ==
    [][(DeletionApplied /\ StaleEventApplied)
          => ~profiles'[hist.target].is_pro]_vars

-----------------------------------------------------------------------------
(* Claims about the free quota under concurrency (checked under SpecRace) *)

\* the log rows of requests that delivered the full text to a user who never
\* subscribed: the successful ones that read a counter below the limit, i.e.
\* logged a counter of at most the limit
FullDeliveries(u) ==
    { i \in 1..Len(logs) :
        /\ logs[i].user = u /\ logs[i].success
        /\ logs[i].generations_at_request <= FREE_GENERATION_LIMIT }

\* C29: a user who never subscribes receives at most FREE_GENERATION_LIMIT
\* responses with status 200 and locked = false, in every interleaving of the
\* user's generate requests.
C29_FullDeliveriesWithinLimit ==
    /\ Cardinality(FullDeliveries("u1")) <= FREE_GENERATION_LIMIT
    /\ (resp.ep = "generate" /\ resp.status = 200 /\ ~resp.locked)
          => resp.readUsed < FREE_GENERATION_LIMIT

-----------------------------------------------------------------------------
(* Claims about the locked preview (checked under SpecPreview) *)

\* the last response is the locked payload of a generated text
LockedPayloadSent == resp.ep = "generate" /\ resp.locked /\ resp.full # <<>>

\* C30: a locked response has an empty text field, and its preview is a
\* proper prefix of the generated text, at most 60% of it long.
C30_PreviewIsPartial ==
    LockedPayloadSent =>
        /\ resp.text = ""
        /\ Len(resp.preview) < Len(resp.full)
        /\ resp.preview = SubSeq(resp.full, 1, Len(resp.preview))
        /\ 10 * Len(resp.preview) <= 6 * Len(resp.full)

====
